---- MODULE Spec2Model ----
(***************************************************************************)
(* Verification model of the speaker-tracking reframing pipeline of        *)
(* video-crop-pro: black-bar detection, speaking-person selection, crop    *)
(* positioning, the clip merge pass of the edit project manager, and the   *)
(* VideoEditor component (platform selection, triggerAnalysis and the      *)
(* frame sampling loop as interleaved async calls).                        *)
(*                                                                         *)
(* Units: times are milliseconds, lengths are pixels.  Optional values     *)
(* (T | null) are sequences of length 0 or 1.                              *)
(***************************************************************************)
EXTENDS Integers, Sequences, FiniteSets, TLC

VARIABLES
  \* ---- edit project manager: optimizeProject (merge pass) ----
  mergePc,        \* "input" | "done" | "again"
  mergeIn,        \* project.clips handed to optimizeProject
  mergeThreshold, \* positionThreshold argument
  mergeInAfter,   \* the objects of project.clips after the call returned
  mergeOut,       \* clips of the returned project
  mergeAgain,     \* clips returned when the pass is applied to mergeOut
  \* ---- face detector: getSpeakingPerson ----
  spPc,           \* "input" | "done"
  spFaces,        \* faces argument
  spResult,       \* returned face, or null
  \* ---- face detector: calculateCropPositionFromFace ----
  cpPc,           \* "input" | "done"
  cpArgs,         \* [face, videoWidth, videoHeight, cropWidth, cropHeight]
  cpResult,       \* returned {x, y}, or null before the call
  \* ---- black bar detector: detectBlackBars ----
  bbPc,           \* "load" | "seeked" | "done" | "rejected"
  bbDuration,     \* duration argument
  bbK,            \* position in samplePoints (1-based)
  bbSeeks,        \* values written to video.currentTime, times 4
  bbFrames,       \* what detectBlackBarsInFrame returned, in call order
  bbMax,          \* the arrays maxTop, maxBottom, maxLeft, maxRight
  bbResult,       \* the BlackBarsDetection returned, or null
  \* ---- black bar detector: detectBlackBarsInFrame on one picture ----
  fbPc,           \* "input" | "done"
  fbFrame,        \* the picture all sampled frames show, and the detector version
  fbResult,       \* [bars, detection], or null before the call
  \* ---- face detector: detectFacesWithSpeakingDetection ----
  shPc,           \* "run" while calls are made
  shVideo,        \* the video sampled: duration, mouth openness per sample and face
  shIndex,        \* loop index i of the next sample of the run in progress
  shCalls,        \* calls made so far
  shTime,         \* timestamp argument of the last call
  shFaces,        \* faces returned by the last call
  shSeen,         \* per face index: successive samples of the run showing it
  mouthMovementHistory, \* faceId -> entries, faceId being <<timestamp, i>>
  shFailure,      \* what went wrong in the last call, "none" if nothing did
  shSettled,      \* how the promise of the last call settled
  shFailuresLeft, \* failing calls still to come
  shRun,          \* number of the run of the sampling loop in progress
  shFirstRun,     \* per sample index: the faces the first run got, if it got any
  \* ---- lines 167-171 of runHardCutAnalysis: segmentation and merge ----
  \* ---- detector initialization: initFaceDetector and its siblings ----
  isInitializing, \* the module flag of line 264
  detectors,      \* per kind: the singleton, Null until created
  callers,        \* per caller: the routine called and how far it got
  creations,      \* per kind: successful createFromOptions so far
  \* ---- server-side export: serverSideExport and waitForJob ----
  exPc,           \* the await serverSideExport is at, "returned" or "threw"
  exAborted,      \* abortSignal.aborted
  exStored,       \* the uploaded source video is in blob storage
  exUploaded,     \* uploadVideo succeeded
  exDeletes,      \* calls of deleteVideo so far
  exFailedDeletes, \* calls of deleteVideo in which del rejected
  exAfter,        \* what follows the deleteVideo in flight: "returned" or "threw"
  exPolls,        \* status requests issued by waitForJob
  exProgress,     \* the last value passed to onProgress
  exWait,         \* the promise of waitForJob: "none", "pending", "resolved", "rejected"
  exResolvedAborted, \* waitForJob called resolve while the signal was set
  \* ---- timeline: TimelineEditor and the clip handlers of VideoEditor ----
  tlDuration,     \* the duration prop, in ms
  tlClips,        \* the clips prop: generatedClips of VideoEditor
  tlHistory,      \* the undo/redo snapshots (history)
  historyIndex,   \* index into history, from 0
  dragState,      \* type, clipId, startX and the times at mouse down
  tlLast,         \* the last operation and, for undo and redo, its target
  editsLeft,      \* operations still to come
  gcPc,           \* "sampling" | "sampled" | "done"
  gcDuration,     \* videoFile.duration
  gcScript,       \* what the detector returns at each sample of the video
  gcFrames,       \* frameAnalyses collected by the sampling loop
  gcClips,        \* clips after generateHardCutClipsFromAnalysis and merge
  \* ---- VideoEditor: the store fields it reads and writes ----
  videoFile,      \* the loaded video, or null
  cropRegion,     \* crop region (its size), or null
  safeArea,       \* safe area, or null
  blackBars,      \* last BlackBarsDetection stored, or null
  isAnalyzing,
  currentAnalyzingRatio,
  analysisProgress,       \* a fraction [num, den]
  analysisAbortController,\* the stored controller (the run owning it), or null
  analyzedRatios,
  editProjects,   \* ratio -> EditProject or null
  currentEditProject,
  \* ---- VideoEditor: component state, refs, timers, localStorage ----
  generatedClips,
  cropPosition,
  previousRatioRef,
  timers,         \* pending setTimeout(() => triggerAnalysis(ratio), 100)
  savedProjects,  \* localStorage: ratio -> EditProject or null
  video,          \* the shared video element: currentTime, seek in flight
  runs,           \* the calls of triggerAnalysis that started an analysis
  lastTriggered,  \* ratio of the last triggerAnalysis call past line 182
  selectionsLeft, \* platform selections the user still makes
  revisitsLeft,   \* selections of an analysed ratio the user makes after these
  failuresLeft    \* sample failures that still happen

mergeVars == <<mergePc, mergeIn, mergeThreshold, mergeInAfter, mergeOut,
               mergeAgain>>

spVars == <<spPc, spFaces, spResult>>

cpVars == <<cpPc, cpArgs, cpResult>>

bbVars == <<bbPc, bbDuration, bbK, bbSeeks, bbFrames, bbMax, bbResult>>

fbVars == <<fbPc, fbFrame, fbResult>>

shVars == <<shPc, shVideo, shIndex, shCalls, shTime, shFaces, shSeen,
            mouthMovementHistory, shFailure, shSettled, shFailuresLeft,
            shRun, shFirstRun>>

diVars == <<isInitializing, detectors, callers, creations>>

exVars == <<exPc, exAborted, exStored, exUploaded, exDeletes, exFailedDeletes,
            exAfter, exPolls, exProgress, exWait, exResolvedAborted>>

tlVars == <<tlDuration, tlClips, tlHistory, historyIndex, dragState, tlLast, editsLeft>>

gcVars == <<gcPc, gcDuration, gcScript, gcFrames, gcClips>>

storeVars == <<videoFile, cropRegion, safeArea, blackBars, isAnalyzing,
               currentAnalyzingRatio, analysisProgress, analysisAbortController,
               analyzedRatios, editProjects, currentEditProject>>

editorVars == <<generatedClips, cropPosition, previousRatioRef, timers,
                savedProjects, video, runs, lastTriggered, selectionsLeft,
                revisitsLeft, failuresLeft>>

vars == <<mergePc, mergeIn, mergeThreshold, mergeInAfter, mergeOut, mergeAgain,
          spPc, spFaces, spResult, cpPc, cpArgs, cpResult,
          bbPc, bbDuration, bbK, bbSeeks, bbFrames, bbMax, bbResult,
          fbPc, fbFrame, fbResult,
          shPc, shVideo, shIndex, shCalls, shTime, shFaces, shSeen,
          mouthMovementHistory, shFailure, shSettled, shFailuresLeft,
          shRun, shFirstRun,
          isInitializing, detectors, callers, creations,
          exPc, exAborted, exStored, exUploaded, exDeletes, exFailedDeletes,
          exAfter, exPolls, exProgress, exWait, exResolvedAborted,
          tlDuration, tlClips, tlHistory, historyIndex, dragState, tlLast, editsLeft,
          gcPc, gcDuration, gcScript, gcFrames, gcClips,
          videoFile, cropRegion, safeArea, blackBars, isAnalyzing,
          currentAnalyzingRatio, analysisProgress, analysisAbortController,
          analyzedRatios, editProjects, currentEditProject,
          generatedClips, cropPosition, previousRatioRef, timers,
          savedProjects, video, runs, lastTriggered, selectionsLeft,
          revisitsLeft, failuresLeft>>

(***************************************************************************)
(* Generic helpers                                                         *)
(***************************************************************************)
Max2(a, b) == IF a >= b THEN a ELSE b

Min2(a, b) == IF a <= b THEN a ELSE b

Last(s) == s[Len(s)]

Null == <<>>

Some(v) == <<v>>

(***************************************************************************)
(* Merge pass: optimizeProject                                             *)
(***************************************************************************)
\* Default positionThreshold of optimizeProject and the argument passed by
\* runHardCutAnalysis to mergeSimilarClips.
DefaultPositionThreshold == 50

\* Mutant: merges at distance <= threshold.
HypotBelowOrEqual(dx, dy, threshold) ==
  /\ threshold >= 0
  /\ dx * dx + dy * dy <= threshold * threshold

\* Math.hypot(dx, dy) < threshold, decided on the squares (exact on integers).
HypotBelow(dx, dy, threshold) ==
  /\ threshold > 0
  /\ dx * dx + dy * dy < threshold * threshold

\* positionDiff < positionThreshold for two clips.
PositionDiffBelow(clip, lastClip, threshold) ==
  HypotBelow(clip.cropPosition.x - lastClip.cropPosition.x,
             clip.cropPosition.y - lastClip.cropPosition.y, threshold)

\* Mutant: compares each clip with its immediate input predecessor instead of
\* the last retained clip.
RECURSIVE optimizeLoopPredecessor(_, _, _, _)
optimizeLoopPredecessor(objs, optimizedClips, k, threshold) ==
  IF k > Len(objs) THEN [objs |-> objs, optimizedClips |-> optimizedClips]
  ELSE IF optimizedClips = <<>>
    THEN optimizeLoopPredecessor(objs, <<k>>, k + 1, threshold)
    ELSE LET last == Last(optimizedClips) IN
         IF PositionDiffBelow(objs[k], objs[k - 1], threshold)
           THEN optimizeLoopPredecessor(
                  [objs EXCEPT ![last].endTime = objs[k].endTime],
                  optimizedClips, k + 1, threshold)
           ELSE optimizeLoopPredecessor(objs, Append(optimizedClips, k),
                                        k + 1, threshold)

\* Mutant: a merged clip is extended and the current clip is kept as well.
RECURSIVE optimizeLoopKeepBoth(_, _, _, _)
optimizeLoopKeepBoth(objs, optimizedClips, k, threshold) ==
  IF k > Len(objs) THEN [objs |-> objs, optimizedClips |-> optimizedClips]
  ELSE IF optimizedClips = <<>>
    THEN optimizeLoopKeepBoth(objs, <<k>>, k + 1, threshold)
    ELSE LET last == Last(optimizedClips) IN
         IF PositionDiffBelow(objs[k], objs[last], threshold)
           THEN optimizeLoopKeepBoth(
                  [objs EXCEPT ![last].endTime = objs[k].endTime],
                  Append(optimizedClips, k), k + 1, threshold)
           ELSE optimizeLoopKeepBoth(objs, Append(optimizedClips, k),
                                     k + 1, threshold)

\* Mutant: a merged clip is discarded without extending the last retained one.
RECURSIVE optimizeLoopNoExtend(_, _, _, _)
optimizeLoopNoExtend(objs, optimizedClips, k, threshold) ==
  IF k > Len(objs) THEN [objs |-> objs, optimizedClips |-> optimizedClips]
  ELSE IF optimizedClips = <<>>
    THEN optimizeLoopNoExtend(objs, <<k>>, k + 1, threshold)
    ELSE LET last == Last(optimizedClips) IN
         IF PositionDiffBelow(objs[k], objs[last], threshold)
           THEN optimizeLoopNoExtend(objs, optimizedClips, k + 1, threshold)
           ELSE optimizeLoopNoExtend(objs, Append(optimizedClips, k),
                                     k + 1, threshold)

\* Mutant: the first clip is skipped instead of pushed (if (!lastClip) continue).
RECURSIVE optimizeLoopSkipFirst(_, _, _, _)
optimizeLoopSkipFirst(objs, optimizedClips, k, threshold) ==
  IF k > Len(objs) THEN [objs |-> objs, optimizedClips |-> optimizedClips]
  ELSE IF optimizedClips = <<>>
    THEN IF k = 1
           THEN optimizeLoopSkipFirst(objs, <<>>, k + 1, threshold)
           ELSE optimizeLoopSkipFirst(objs, <<k>>, k + 1, threshold)
    ELSE LET last == Last(optimizedClips) IN
         IF PositionDiffBelow(objs[k], objs[last], threshold)
           THEN optimizeLoopSkipFirst(
                  [objs EXCEPT ![last].endTime = objs[k].endTime],
                  optimizedClips, k + 1, threshold)
           ELSE optimizeLoopSkipFirst(objs, Append(optimizedClips, k),
                                      k + 1, threshold)

\* Mutant: a merge moves the crop position of the last retained clip to that
\* of the merged clip as well.
RECURSIVE optimizeLoopMovePosition(_, _, _, _)
optimizeLoopMovePosition(objs, optimizedClips, k, threshold) ==
  IF k > Len(objs) THEN [objs |-> objs, optimizedClips |-> optimizedClips]
  ELSE IF optimizedClips = <<>>
    THEN optimizeLoopMovePosition(objs, <<k>>, k + 1, threshold)
    ELSE LET last == Last(optimizedClips) IN
         IF PositionDiffBelow(objs[k], objs[last], threshold)
           THEN optimizeLoopMovePosition(
                  [objs EXCEPT ![last].endTime = objs[k].endTime,
                               ![last].cropPosition = objs[k].cropPosition],
                  optimizedClips, k + 1, threshold)
           ELSE optimizeLoopMovePosition(objs, Append(optimizedClips, k),
                                         k + 1, threshold)

\* The for-of loop of optimizeProject.  objs are the clip objects of
\* project.clips (addressed by their position in the input array),
\* optimizedClips holds references (positions) into objs, k is the next input
\* clip.  Pushing a clip shares the object; a merge writes endTime of the
\* last retained object.
RECURSIVE optimizeLoop(_, _, _, _)
optimizeLoop(objs, optimizedClips, k, threshold) ==
  IF k > Len(objs) THEN [objs |-> objs, optimizedClips |-> optimizedClips]
  ELSE IF optimizedClips = <<>>
    THEN optimizeLoop(objs, <<k>>, k + 1, threshold)
    ELSE LET last == Last(optimizedClips) IN
         IF PositionDiffBelow(objs[k], objs[last], threshold)
           THEN optimizeLoop([objs EXCEPT ![last].endTime = objs[k].endTime],
                             optimizedClips, k + 1, threshold)
           ELSE optimizeLoop(objs, Append(optimizedClips, k), k + 1, threshold)

\* optimizeProject(project, positionThreshold): the returned clip list and
\* the state of the input objects after the call.
optimizeProject(clips, positionThreshold) ==
  LET r == optimizeLoop(clips, <<>>, 1, positionThreshold) IN
  [clips |-> [i \in 1..Len(r.optimizedClips) |-> r.objs[r.optimizedClips[i]]],
   input |-> r.objs]

(***************************************************************************)
(* Inputs of the merge pass                                                *)
(***************************************************************************)
MaxClips == 3

\* Crop positions: 40 apart along x (below 50), (0,0)-(30,40) exactly 50.
MergePositions ==
  {[x |-> 0, y |-> 0], [x |-> 30, y |-> 40], [x |-> 40, y |-> 0],
   [x |-> 80, y |-> 0]}

MergeDurations == {1000, 2000}

MergeThresholds == {DefaultPositionThreshold, 100}

Clip(id, s, e, pos, full) ==
  [id |-> id, startTime |-> s, endTime |-> e, cropPosition |-> pos,
   useFullFrame |-> full]

RECURSIVE SumTo(_, _)
SumTo(f, n) == IF n = 0 THEN 0 ELSE f[n] + SumTo(f, n - 1)

\* Time-adjacent clip lists starting at 0: clip i has id i.
AdjacentClipLists ==
  UNION {
    { [i \in 1..n |->
         Clip(i, SumTo(d, i - 1), SumTo(d, i), p[i], FALSE)] :
      d \in [1..n -> MergeDurations], p \in [1..n -> MergePositions] } :
    n \in 0..MaxClips }

\* A pause before the first clip, and between any two clips: none, or half a
\* second.
MergeGaps == {0, 500}

\* Time-sorted clip lists without overlap: the first clip starts after lead,
\* clip i + 1 starts pause after the end of clip i.
SortedClipLists ==
  UNION {
    { [i \in 1..n |->
         Clip(i, lp[1] + (i - 1) * lp[2] + SumTo(d, i - 1),
              lp[1] + (i - 1) * lp[2] + SumTo(d, i), p[i], FALSE)] :
      d \in [1..n -> MergeDurations], p \in [1..n -> MergePositions],
      lp \in MergeGaps \X MergeGaps } :
    n \in 0..MaxClips }

MergeInputs ==
  /\ mergePc = "input"
  /\ mergeIn \in AdjacentClipLists \cup SortedClipLists
  /\ mergeThreshold \in MergeThresholds
  /\ mergeInAfter = mergeIn
  /\ mergeOut = <<>>
  /\ mergeAgain = <<>>

MergeOff ==
  /\ mergePc = "off"
  /\ mergeIn = <<>>
  /\ mergeThreshold = DefaultPositionThreshold
  /\ mergeInAfter = <<>>
  /\ mergeOut = <<>>
  /\ mergeAgain = <<>>

OptimizeProject ==
  /\ mergePc = "input"
  /\ LET r == optimizeProject(mergeIn, mergeThreshold) IN
       /\ mergeOut' = r.clips
       /\ mergeInAfter' = r.input
  /\ mergePc' = "done"
  /\ UNCHANGED <<mergeIn, mergeThreshold, mergeAgain, spVars, cpVars, bbVars,
                 gcVars, storeVars, editorVars, fbVars,
                 shVars,
                 diVars,
                 exVars,
                 tlVars>>

\* optimizeProject is called a second time, on the project it returned, with
\* the same threshold.
OptimizeProjectAgain ==
  /\ mergePc = "done"
  /\ mergeAgain' = optimizeProject(mergeOut, mergeThreshold).clips
  /\ mergePc' = "again"
  /\ UNCHANGED <<mergeIn, mergeThreshold, mergeInAfter, mergeOut, spVars,
                 cpVars, bbVars, gcVars, storeVars, editorVars, fbVars,
                 shVars,
                 diVars,
                 exVars,
                 tlVars>>

(***************************************************************************)
(* Speaking-person selection: getSpeakingPerson                            *)
(***************************************************************************)
\* Mutant: ties replace the best face (>= instead of >).
BetterFaceOrEqual(best, current) ==
  IF current.speakingScore >= best.speakingScore THEN current ELSE best

\* A reduce callback: current.speakingScore > best.speakingScore ? current : best
BetterFace(best, current) ==
  IF current.speakingScore > best.speakingScore THEN current ELSE best

\* Array.prototype.reduce without an initial value over a non-empty array.
RECURSIVE ReduceFaces(_, _, _)
ReduceFaces(faces, best, k) ==
  IF k > Len(faces) THEN best
  ELSE ReduceFaces(faces, BetterFace(best, faces[k]), k + 1)

IsSpeakingFace(f) == f.isSpeaking

\* Mutant: the speaking flag is ignored, every face is a candidate.
getSpeakingPersonIgnoringFlag(faces) ==
  IF Len(faces) = 0 THEN Null
  ELSE Some(ReduceFaces(faces, faces[1], 2))

getSpeakingPerson(faces) ==
  IF Len(faces) = 0 THEN Null
  ELSE LET speakingFaces == SelectSeq(faces, IsSpeakingFace) IN
       IF Len(speakingFaces) = 0
         THEN Some(ReduceFaces(faces, faces[1], 2))
         ELSE Some(ReduceFaces(speakingFaces, speakingFaces[1], 2))

MaxFaces == 3

\* Speaking scores in hundredths: 0.05, 0.1, 0.3.
SpeakingScores == {5, 10, 30}

\* Face lists as the detector builds them: faceIndex is the array index.
FaceLists ==
  UNION {
    { [i \in 1..n |-> [isSpeaking |-> sp[i], speakingScore |-> sc[i],
                       faceIndex |-> i - 1]] :
      sp \in [1..n -> BOOLEAN], sc \in [1..n -> SpeakingScores] } :
    n \in 0..MaxFaces }

SpInputs ==
  /\ spPc = "input"
  /\ spFaces \in FaceLists
  /\ spResult = Null

SpOff ==
  /\ spPc = "off"
  /\ spFaces = <<>>
  /\ spResult = Null

GetSpeakingPerson ==
  /\ spPc = "input"
  /\ spResult' = getSpeakingPerson(spFaces)
  /\ spPc' = "done"
  /\ UNCHANGED <<spFaces, mergeVars, cpVars, bbVars, gcVars,
               storeVars, editorVars, fbVars,
                 shVars,
                 diVars,
                 exVars,
                 tlVars>>

(***************************************************************************)
(* Crop position from a face: calculateCropPositionFromFace                *)
(***************************************************************************)
\* n / 2 and n * 0.1; the inputs below keep both exact.
Half(n) == n \div 2

Tenth(n) == n \div 10

\* Math.max(0, Math.min(v, limit))
Clamp0(v, limit) == Max2(0, Min2(v, limit))

calculateCropPositionFromFace(face, videoWidth, videoHeight, cropWidth, cropHeight) ==
  LET faceCenter == [x |-> face.boundingBox.x + Half(face.boundingBox.width),
                     y |-> face.boundingBox.y + Half(face.boundingBox.height)]
      verticalOffset == Tenth(cropHeight)
      x == faceCenter.x - Half(cropWidth)
      y == faceCenter.y - Half(cropHeight) + verticalOffset
  IN [x |-> Clamp0(x, videoWidth - cropWidth),
      y |-> Clamp0(y, videoHeight - cropHeight)]

\* The source video (videoFile.width, videoFile.height) of the inputs below.
VideoSize == [width |-> 1920, height |-> 1080]

VideoWidth == VideoSize.width

VideoHeight == VideoSize.height

\* Bounding boxes (even sizes), in safe-area coordinates.
FaceBoxes ==
  {[x |-> bx, y |-> by, width |-> 200, height |-> 200] :
     bx \in {-40, 860, 1700}, by \in {-40, 440, 900}}

\* Safe-area sizes: the video shrunk by left+right bars of 0 or 200 px and
\* top+bottom bars of 0, 120 or 200 px.
SafeSizes ==
  {[width |-> VideoWidth - l, height |-> VideoHeight - t] :
     l \in {0, 200}, t \in {0, 120, 200}}

\* Crop regions of the target ratios 9:16, 1:1 and 4:5 inside the video, and
\* a quarter-size crop.
CropSizes ==
  {[width |-> 608, height |-> 1080], [width |-> 1080, height |-> 1080],
   [width |-> 864, height |-> 1080], [width |-> 480, height |-> 540]}

CpInputs ==
  /\ cpPc = "input"
  /\ cpArgs \in {[face |-> [boundingBox |-> b], videoWidth |-> sa.width,
                  videoHeight |-> sa.height, cropWidth |-> c.width,
                  cropHeight |-> c.height] :
                 b \in FaceBoxes, sa \in SafeSizes, c \in CropSizes}
  /\ cpResult = Null

CpOff ==
  /\ cpPc = "off"
  /\ cpArgs = Null
  /\ cpResult = Null

CalculateCropPositionFromFace ==
  /\ cpPc = "input"
  /\ cpResult' = Some(calculateCropPositionFromFace(cpArgs.face,
                        cpArgs.videoWidth, cpArgs.videoHeight,
                        cpArgs.cropWidth, cpArgs.cropHeight))
  /\ cpPc' = "done"
  /\ UNCHANGED <<cpArgs, mergeVars, spVars, bbVars, gcVars,
               storeVars, editorVars, fbVars,
                 shVars,
                 diVars,
                 exVars,
                 tlVars>>

(***************************************************************************)
(* Black bar detection: detectBlackBars                                    *)
(***************************************************************************)
\* samplePoints = [0, 0.25, 0.5, 0.75, 1.0], in quarters.
SamplePoints == <<0, 1, 2, 3, 4>>

\* Mutant: the last frame's estimate wins instead of the maximum.
MathMaxLastWins(arr) == arr[Len(arr)]

\* Math.max(...arr) of a non-empty array.
RECURSIVE MathMax(_)
MathMax(arr) ==
  IF Len(arr) = 1 THEN arr[1]
  ELSE Max2(arr[1], MathMax(Tail(arr)))

\* Lines 65-97 of detectBlackBars: the result built from the four arrays.
BlackBarsResult(maxArrays, analysisArea) ==
  LET top == MathMax(maxArrays.top)
      bottom == MathMax(maxArrays.bottom)
      left == MathMax(maxArrays.left)
      right == MathMax(maxArrays.right)
  IN [hasBlackBars |-> (top > 0 \/ bottom > 0 \/ left > 0 \/ right > 0),
      top |-> top, bottom |-> bottom, left |-> left, right |-> right,
      safeArea |-> [x |-> analysisArea.x + left,
                    y |-> analysisArea.y + top,
                    width |-> analysisArea.width - left - right,
                    height |-> analysisArea.height - top - bottom]]

\* maxTop = [0], maxBottom = [0], maxLeft = [0], maxRight = [0]
InitialMaxArrays == [top |-> <<0>>, bottom |-> <<0>>, left |-> <<0>>, right |-> <<0>>]

\* maxTop.push(bars.top); ... maxRight.push(bars.right)
PushBars(maxArrays, bars) ==
  [top |-> Append(maxArrays.top, bars.top),
   bottom |-> Append(maxArrays.bottom, bars.bottom),
   left |-> Append(maxArrays.left, bars.left),
   right |-> Append(maxArrays.right, bars.right)]

\* analysisArea when no cropArea is passed: the whole video.
FullFrame == [x |-> 0, y |-> 0, width |-> VideoWidth, height |-> VideoHeight]

\* Per-frame estimates detectBlackBarsInFrame can return: no bars, a
\* letterbox, a pillarbox, a bar on top only (as in a fade-in).
FrameBars ==
  {[top |-> 0, bottom |-> 0, left |-> 0, right |-> 0],
   [top |-> 60, bottom |-> 60, left |-> 0, right |-> 0],
   [top |-> 0, bottom |-> 0, left |-> 100, right |-> 100],
   [top |-> 140, bottom |-> 0, left |-> 0, right |-> 0]}

BbDurations == {0, 2500, 10000}

BbInputs ==
  /\ bbPc = "load"
  /\ bbDuration \in BbDurations
  /\ bbK = 0
  /\ bbSeeks = <<>>
  /\ bbFrames = <<>>
  /\ bbMax = InitialMaxArrays
  /\ bbResult = Null

BbOff ==
  /\ bbPc = "off"
  /\ bbDuration = 0
  /\ bbK = 0
  /\ bbSeeks = <<>>
  /\ bbFrames = <<>>
  /\ bbMax = InitialMaxArrays
  /\ bbResult = Null

\* video.onloadedmetadata fired: the loop starts and seeks to the first
\* sample point (video.currentTime = duration * progress).
BBLoadedMetadata ==
  /\ bbPc = "load"
  /\ bbK' = 1
  /\ bbSeeks' = Append(bbSeeks, bbDuration * SamplePoints[1])
  /\ bbPc' = "seeked"
  /\ UNCHANGED <<bbDuration, bbFrames, bbMax, bbResult, mergeVars, spVars, cpVars,
                 gcVars, storeVars, editorVars, fbVars,
                 shVars,
                 diVars,
                 exVars,
                 tlVars>>

\* video.onerror fired: the load promise rejects and with it detectBlackBars.
BBLoadError ==
  /\ bbPc = "load"
  /\ bbPc' = "rejected"
  /\ UNCHANGED <<bbDuration, bbK, bbSeeks, bbFrames, bbMax, bbResult,
                 mergeVars, spVars, cpVars, gcVars,
                 storeVars, editorVars, fbVars,
                 shVars,
                 diVars,
                 exVars,
                 tlVars>>

\* The seek completed and the render delay passed: the frame is measured and
\* pushed; then either the next sample point is sought or the result returned.
BBFrameSampled ==
  /\ bbPc = "seeked"
  /\ \E bars \in FrameBars :
       LET pushed == PushBars(bbMax, bars) IN
       /\ bbFrames' = Append(bbFrames, bars)
       /\ bbMax' = pushed
       /\ IF bbK < Len(SamplePoints)
            THEN /\ bbK' = bbK + 1
                 /\ bbSeeks' = Append(bbSeeks, bbDuration * SamplePoints[bbK + 1])
                 /\ bbPc' = "seeked"
                 /\ bbResult' = bbResult
            ELSE /\ bbPc' = "done"
                 /\ bbResult' = Some(BlackBarsResult(pushed, FullFrame))
                 /\ UNCHANGED <<bbK, bbSeeks>>
  /\ UNCHANGED <<bbDuration, mergeVars, spVars, cpVars, gcVars,
                 storeVars, editorVars, fbVars,
                 shVars,
                 diVars,
                 exVars,
                 tlVars>>

\* detectBlackBarsInFrame threw (drawImage / getImageData): detectBlackBars
\* rejects.
BBFrameThrows ==
  /\ bbPc = "seeked"
  /\ bbPc' = "rejected"
  /\ UNCHANGED <<bbDuration, bbK, bbSeeks, bbFrames, bbMax, bbResult,
                 mergeVars, spVars, cpVars, gcVars,
                 storeVars, editorVars, fbVars,
                 shVars,
                 diVars,
                 exVars,
                 tlVars>>

(***************************************************************************)
(* Black bars of one frame: detectBlackBarsInFrame, in its two versions    *)
(* (blackBarDetector.ts: threshold 30, more than 90% of the first 100      *)
(* pixels; part_002: threshold 40, at least 85% of a strided sample, and a *)
(* safety margin)                                                          *)
(***************************************************************************)
DetectorVersions == {"blackBarDetector", "part_002"}

\* const blackThreshold = 30 (blackBarDetector.ts) or 40 (part_002)
BlackThreshold(version) == IF version = "blackBarDetector" THEN 30 ELSE 40

\* const minBarSize = 3
MinBarSize == 3

\* (data[idx] + data[idx + 1] + data[idx + 2]) / 3 of the pixel (x, y): the
\* bands along the four edges of the picture are pure black, all other pixels
\* have one brightness.
Brightness(frame, x, y) ==
  IF \/ y < frame.top
     \/ y >= frame.height - frame.bottom
     \/ x < frame.left
     \/ x >= frame.width - frame.right
    THEN 0
    ELSE frame.other

\* The sampled positions 0, step, 2 step, ... below n.
Strided(n, step) == {i * step : i \in 0..((n - 1) \div step)}

\* Whether enough of the examined pixels are black: more than 90% of them
\* (blackBarDetector.ts), at least 85% (part_002).
EnoughBlack(version, blackPixels, examined) ==
  IF version = "blackBarDetector"
    THEN 10 * blackPixels > 9 * examined
    ELSE 100 * blackPixels >= 85 * examined

\* The pixels of a row or column of length n that are examined: the first
\* 100 (blackBarDetector.ts), or every floor(n / 200)-th (part_002).
Examined(version, n) ==
  IF version = "blackBarDetector"
    THEN 0..(Min2(n, 100) - 1)
    ELSE Strided(n, Max2(1, n \div 200))

isRowBlackInArea(frame, y, width, version) ==
  LET xs == Examined(version, width)
      blackPixels == Cardinality({x \in xs :
                        Brightness(frame, x, y) < BlackThreshold(version)})
  IN EnoughBlack(version, blackPixels, Cardinality(xs))

isColumnBlackInArea(frame, x, height, version) ==
  LET ys == Examined(version, height)
      blackPixels == Cardinality({y \in ys :
                        Brightness(frame, x, y) < BlackThreshold(version)})
  IN EnoughBlack(version, blackPixels, Cardinality(ys))

\* The number of iterations a loop of the form
\*   for (d = 0; d < n; d++) { if (!black[d]) break; count++; }
\* completes: the length of the leading run of black rows or columns.
LeadingBlack(n, black) ==
  IF \A d \in 0..(n - 1) : black[d] THEN n
  ELSE CHOOSE d \in 0..(n - 1) :
         ~black[d] /\ \A e \in 0..(d - 1) : black[e]

\* for (let y = 0; y < height / 2; y++) { if (!rowIsBlack) break; top++; }
TopLoop(frame, version) ==
  LET n == (frame.height + 1) \div 2 IN
  LeadingBlack(n, [d \in 0..(n - 1) |->
                     isRowBlackInArea(frame, d, frame.width, version)])

\* for (let y = height - 1; y >= height / 2; y--) { ...; bottom++; }
BottomLoop(frame, version) ==
  LET n == frame.height \div 2 IN
  LeadingBlack(n, [d \in 0..(n - 1) |->
                     isRowBlackInArea(frame, frame.height - 1 - d,
                                      frame.width, version)])

\* for (let x = 0; x < width / 2; x++) { if (!colIsBlack) break; left++; }
LeftLoop(frame, version) ==
  LET n == (frame.width + 1) \div 2 IN
  LeadingBlack(n, [d \in 0..(n - 1) |->
                     isColumnBlackInArea(frame, d, frame.height, version)])

\* for (let x = width - 1; x >= width / 2; x--) { ...; right++; }
RightLoop(frame, version) ==
  LET n == frame.width \div 2 IN
  LeadingBlack(n, [d \in 0..(n - 1) |->
                     isColumnBlackInArea(frame, frame.width - 1 - d,
                                         frame.height, version)])

\* safetyMargin of part_002: Math.max(5, Math.floor(Math.max(w, h) * 0.01));
\* blackBarDetector.ts adds none.
SafetyMargin(frame, version) ==
  IF version = "blackBarDetector" THEN 0
  ELSE Max2(5, Max2(frame.width, frame.height) \div 100)

\* Mutant: a bar of exactly minBarSize is discarded (> instead of >=).
KeepBarAbove(n, margin) == IF n > MinBarSize THEN n + margin ELSE 0

\* top = top >= minBarSize ? top + safetyMargin : 0
KeepBar(n, margin) == IF n >= MinBarSize THEN n + margin ELSE 0

\* top, bottom, left and right when the four loops have ended, lines 133-163.
CountBars(frame, version) ==
  [top |-> TopLoop(frame, version), bottom |-> BottomLoop(frame, version),
   left |-> LeftLoop(frame, version), right |-> RightLoop(frame, version)]

\* Lines 165-172: what is returned for the counts of the four loops.
KeepBars(counted, margin) ==
  [top |-> KeepBar(counted.top, margin),
   bottom |-> KeepBar(counted.bottom, margin),
   left |-> KeepBar(counted.left, margin),
   right |-> KeepBar(counted.right, margin)]

\* detectBlackBarsInFrame(video, analysisArea) with the whole frame as the
\* analysis area.
detectBlackBarsInFrame(frame, version) ==
  KeepBars(CountBars(frame, version), SafetyMargin(frame, version))

\* detectBlackBars on a video whose five sampled frames all give bars.
DetectBarsOfPicture(frame, bars) ==
  BlackBarsResult(
    PushBars(PushBars(PushBars(PushBars(PushBars(InitialMaxArrays,
      bars), bars), bars), bars), bars),
    [x |-> 0, y |-> 0, width |-> frame.width, height |-> frame.height])

\* Frame sizes, the heights of the black band on top (none, below the minimum
\* bar size, the minimum, 50 rows, half the frame), and the brightness of the
\* other pixels (black, dark grey between the two thresholds, grey, white).
FrameSizes ==
  {[width |-> 16, height |-> 9], [width |-> 320, height |-> 240],
   [width |-> 1920, height |-> 1080]}

TopBands(height) ==
  {k \in {0, 1, 2, MinBarSize, 4, 50, 100, height \div 2} : 2 * k <= height}

OtherBrightness == {0, 35, 128, 255}

\* Bands of equal size on two opposite edges of a frame of extent n, with
\* picture in between: the minimum bar size, about 90 and 100 pixels, and
\* 45% of the extent each.
PairedBands(n) ==
  {k \in {MinBarSize, 91, 100, (45 * n) \div 100} : 2 * k < n}

\* A band on the bottom or on the right only.
FarBands(n) == {k \in {MinBarSize, 50} : 2 * k <= n}

\* A band on the left only: around the minimum bar size, and around 90% of
\* 100 pixels and 85% of 320 pixels.
LeftBands(width) ==
  {k \in {1, 2, MinBarSize, 89, 90, 91, 271, 272, 273} : k < width}

Picture(sz, t, b, l, r, o) ==
  [width |-> sz.width, height |-> sz.height,
   top |-> t, bottom |-> b, left |-> l, right |-> r, other |-> o]

\* The frames measured: a band on top over every brightness of the rest, and
\* over a grey picture a letterbox, a pillarbox, a band on one other edge.
PicturesOfSize(sz) ==
  {Picture(sz, k, 0, 0, 0, o) : k \in TopBands(sz.height), o \in OtherBrightness}
  \cup {Picture(sz, k, k, 0, 0, 128) : k \in PairedBands(sz.height)}
  \cup {Picture(sz, 0, 0, k, k, 128) : k \in PairedBands(sz.width)}
  \cup {Picture(sz, 0, k, 0, 0, 128) : k \in FarBands(sz.height)}
  \cup {Picture(sz, 0, 0, 0, k, 128) : k \in FarBands(sz.width)}
  \cup {Picture(sz, 0, 0, k, 0, 128) : k \in LeftBands(sz.width)}

Pictures == UNION {PicturesOfSize(sz) : sz \in FrameSizes}

FbInputs ==
  /\ fbPc = "input"
  /\ fbFrame \in {[picture |-> pic, version |-> v] :
                    pic \in Pictures, v \in DetectorVersions}
  /\ fbResult = Null

FbOff ==
  /\ fbPc = "off"
  /\ fbFrame = Null
  /\ fbResult = Null

DetectBlackBarsInFrame ==
  /\ fbPc = "input"
  /\ \E counted \in {CountBars(fbFrame.picture, fbFrame.version)} :
     \E bars \in {KeepBars(counted, SafetyMargin(fbFrame.picture, fbFrame.version))} :
       fbResult' = Some([bars |-> bars,
                         counted |-> counted,
                         detection |-> DetectBarsOfPicture(fbFrame.picture, bars)])
  /\ fbPc' = "done"
  /\ UNCHANGED <<fbFrame, mergeVars, spVars, cpVars, bbVars, gcVars,
                 storeVars, editorVars, shVars,
                 diVars,
                 exVars,
                 tlVars>>

(***************************************************************************)
(* Sampling loop helpers and the clip generator (runHardCutAnalysis)       *)
(***************************************************************************)
\* samplingInterval = 0.5 (seconds), in milliseconds.
SamplingInterval == 500

\* Math.ceil(a / b) for a >= 0, b > 0.
CeilDiv(a, b) == (a + b - 1) \div b

\* totalSamples = Math.ceil(videoFile.duration / samplingInterval)
TotalSamples(duration) == CeilDiv(duration, SamplingInterval)

\* Mutant: the sample time is not capped at the duration.
SampleTimeUncapped(i, duration) == i * SamplingInterval

\* time = Math.min(i * samplingInterval, videoFile.duration)
SampleTime(i, duration) == Min2(i * SamplingInterval, duration)

\* The tolerance beyond which a change of crop position is a cut, and the
\* minimum clip duration (default 2 s) of the segmenter.
CutTolerance == 20

MinClipDuration == 2000

\* analyzeFrameStrategy(faces, speakingIndex, safeWidth, safeHeight,
\* cropWidth, cropHeight): rule 1 (speaking face), rule 2 (single face),
\* rule 3 (first face of highest confidence), rule 4 (centered crop).
analyzeFrameStrategy(faces, speakingIndex, safeWidth, safeHeight, cropWidth, cropHeight) ==
  IF speakingIndex # Null
    THEN [strategy |-> "speaker",
          cropPosition |-> calculateCropPositionFromFace(
             faces[speakingIndex[1] + 1], safeWidth, safeHeight,
             cropWidth, cropHeight)]
  ELSE IF Len(faces) = 1
    THEN [strategy |-> "speaker",
          cropPosition |-> calculateCropPositionFromFace(
             faces[1], safeWidth, safeHeight, cropWidth, cropHeight)]
  ELSE IF Len(faces) > 1
    THEN LET best == CHOOSE i \in 1..Len(faces) :
                       \A j \in 1..Len(faces) :
                         \/ faces[j].confidence < faces[i].confidence
                         \/ (faces[j].confidence = faces[i].confidence /\ i <= j)
         IN [strategy |-> "fallback",
             cropPosition |-> calculateCropPositionFromFace(
                faces[best], safeWidth, safeHeight, cropWidth, cropHeight)]
  ELSE [strategy |-> "center",
        cropPosition |-> [x |-> Clamp0(Half(safeWidth - cropWidth), safeWidth - cropWidth),
                          y |-> Clamp0(Half(safeHeight - cropHeight), safeHeight - cropHeight)]]

\* The cut rule of the segmenter: the strategy changed, or the crop position
\* moved beyond the tolerance relative to the open clip.
WithinTolerance(dx, dy) ==
  dx * dx + dy * dy <= CutTolerance * CutTolerance

NeedsCut(open, frame) ==
  \/ frame.strategy # open.strategy
  \/ ~WithinTolerance(frame.cropPosition.x - open.cropPosition.x,
                      frame.cropPosition.y - open.cropPosition.y)

\* The walk over the frames: closed are the clips closed so far, open is the
\* open clip (its start, crop position and strategy).
RECURSIVE WalkFrames(_, _, _, _, _)
WalkFrames(frames, k, closed, open, duration) ==
  IF k > Len(frames)
    THEN Append(closed, Clip(Len(closed) + 1, open.startTime, duration,
                             open.cropPosition, FALSE))
  ELSE IF NeedsCut(open, frames[k])
    THEN WalkFrames(frames, k + 1,
           Append(closed, Clip(Len(closed) + 1, open.startTime,
                               frames[k].timestamp, open.cropPosition, FALSE)),
           [startTime |-> frames[k].timestamp,
            cropPosition |-> frames[k].cropPosition,
            strategy |-> frames[k].strategy], duration)
    ELSE WalkFrames(frames, k + 1, closed, open, duration)

\* Mutant: a short clip is dropped without extending the preceding clip.
RECURSIVE DropShortClips(_, _, _)
DropShortClips(clips, k, out) ==
  IF k > Len(clips) THEN out
  ELSE IF out # <<>> /\ clips[k].endTime - clips[k].startTime < MinClipDuration
    THEN DropShortClips(clips, k + 1, out)
    ELSE DropShortClips(clips, k + 1, Append(out, clips[k]))

\* The absorption pass: a clip shorter than the minimum is absorbed into the
\* preceding clip, which is extended to its end.
RECURSIVE AbsorbShortClips(_, _, _)
AbsorbShortClips(clips, k, out) ==
  IF k > Len(clips) THEN out
  ELSE IF out # <<>> /\ clips[k].endTime - clips[k].startTime < MinClipDuration
    THEN AbsorbShortClips(clips, k + 1,
           [out EXCEPT ![Len(out)].endTime = clips[k].endTime])
    ELSE AbsorbShortClips(clips, k + 1, Append(out, clips[k]))

\* generateHardCutClipsFromAnalysis(frameAnalyses, videoWidth, videoHeight,
\* cropWidth, cropHeight, duration).  Without frames: one full-frame clip over
\* the whole video.
generateHardCutClipsFromAnalysis(frames, duration) ==
  IF Len(frames) = 0
    THEN <<Clip(1, 0, duration, [x |-> 0, y |-> 0], TRUE)>>
    ELSE LET walked == WalkFrames(frames, 2, <<>>,
                         [startTime |-> 0,
                          cropPosition |-> frames[1].cropPosition,
                          strategy |-> frames[1].strategy], duration)
         IN AbsorbShortClips(walked, 1, <<>>)

\* mergeSimilarClips(clips, threshold): the merge pass of section 4.5, the
\* algorithm of optimizeProject.
mergeSimilarClips(clips, threshold) == optimizeProject(clips, threshold).clips

\* Lines 167-171 of runHardCutAnalysis.
GenerateAndMerge(frames, duration) ==
  mergeSimilarClips(generateHardCutClipsFromAnalysis(frames, duration),
                    DefaultPositionThreshold)

(***************************************************************************)
(* One sample of the loop: lines 129-157 of runHardCutAnalysis             *)
(***************************************************************************)
\* faces.map(f => ...): bounding boxes relative to the safe area.
AdjustFaces(faces, currentSafeArea) ==
  [k \in 1..Len(faces) |->
     [boundingBox |-> [x |-> faces[k].boundingBox.x - currentSafeArea.x,
                       y |-> faces[k].boundingBox.y - currentSafeArea.y,
                       width |-> faces[k].boundingBox.width,
                       height |-> faces[k].boundingBox.height],
      confidence |-> faces[k].confidence]]

\* speakingPerson ? faces.findIndex(f => f === speakingPerson) : null
SpeakingIndex(faces) ==
  LET speakingPerson == getSpeakingPerson(faces) IN
  IF speakingPerson = Null THEN Null ELSE Some(speakingPerson[1].faceIndex)

\* The FrameAnalysis pushed for a sample whose try block completed.
AnalyzeSample(faces, time, currentSafeArea, region) ==
  LET adjustedFaces == AdjustFaces(faces, currentSafeArea)
      speakingIndex == SpeakingIndex(faces)
      st == analyzeFrameStrategy(adjustedFaces, speakingIndex,
              currentSafeArea.width, currentSafeArea.height,
              region.width, region.height)
  IN [timestamp |-> time,
      faces |-> adjustedFaces,
      speakingFaceIndex |-> speakingIndex,
      strategy |-> st.strategy,
      cropPosition |-> [x |-> st.cropPosition.x + currentSafeArea.x,
                        y |-> st.cropPosition.y + currentSafeArea.y]]

\* A face as detectFacesWithSpeakingDetection reports it (scores in
\* hundredths, confidence 0.9).
DetectedFace(bx, i, speaking, score) ==
  [boundingBox |-> [x |-> bx, y |-> 440, width |-> 200, height |-> 200],
   confidence |-> 90, isSpeaking |-> speaking, speakingScore |-> score,
   faceIndex |-> i]

\* What the detector resolves to: no face, a face on the left, the same face
\* moved by 40 px, a face on the right.
NoFace == <<>>

FaceLeft == <<DetectedFace(204, 0, TRUE, 10)>>

FaceLeftMoved == <<DetectedFace(244, 0, TRUE, 10)>>

FaceRight == <<DetectedFace(1500, 0, FALSE, 0)>>

DetectorResults == {NoFace, FaceLeft, FaceLeftMoved, FaceRight}

\* cropRegion of the 9:16 target inside the video.
PortraitCrop == [width |-> 608, height |-> 1080]

(***************************************************************************)
(* Inputs of segmentation and merge: what the sampling loop can collect    *)
(***************************************************************************)
MaxSegments == 3

MaxGap == 1

ClipDurations == {0, 500, 2500, 4500}

\* The detector result of sample i when the results change at the sample
\* indices in cuts.
SegmentOf(i, cuts) == 1 + Cardinality({c \in cuts : c <= i})

\* The frames pushed for samples i..total: analysed[v] is the FrameAnalysis of
\* detector result v (at time 0), the samples in dropped threw inside the try
\* block.
RECURSIVE CollectFrames(_, _, _, _, _, _)
CollectFrames(i, total, duration, cuts, analysed, dropped) ==
  IF i > total THEN <<>>
  ELSE IF i \in dropped
    THEN CollectFrames(i + 1, total, duration, cuts, analysed, dropped)
    ELSE <<[analysed[SegmentOf(i, cuts)] EXCEPT !.timestamp = SampleTime(i, duration)]>>
         \o CollectFrames(i + 1, total, duration, cuts, analysed, dropped)

\* Runs of consecutive sample indices of length 0..MaxGap.
GapSets(total) ==
  {{}} \cup {g..(g + len - 1) : g \in 0..total, len \in 1..MaxGap}

\* What the video shows and which samples throw: the detector results per
\* segment, the sample indices where they change, the samples that throw.
SamplingScripts(duration) ==
  UNION {
    [cuts : {c \in SUBSET (1..TotalSamples(duration)) : Cardinality(c) = n - 1},
     values : {v \in [1..n -> DetectorResults] :
                 \A k \in 1..(n - 1) : v[k] # v[k + 1]},
     dropped : GapSets(TotalSamples(duration))] :
    n \in 1..MaxSegments }

NoScript == [cuts |-> {}, values |-> <<>>, dropped |-> {}]

\* A video of 10 s (21 samples): the picture is constant or changes once, at
\* any sample.
TenSeconds == 20 * SamplingInterval

\* The face of FaceLeft moved by 50 px, the threshold of the merge pass.
FaceLeftAtThreshold == <<DetectedFace(254, 0, TRUE, 10)>>

TenSecondResults == DetectorResults \cup {FaceLeftAtThreshold}

TenSecondScripts ==
  [cuts : {{}}, values : {<<v>> : v \in TenSecondResults},
   dropped : GapSets(TotalSamples(TenSeconds))]
  \cup
  [cuts : {{c} : c \in 1..TotalSamples(TenSeconds)},
   values : {<<v, w>> : v \in TenSecondResults, w \in TenSecondResults} \
              {<<v, v>> : v \in TenSecondResults},
   dropped : GapSets(TotalSamples(TenSeconds))]

ScriptsFor(duration) ==
  IF duration = TenSeconds THEN TenSecondScripts ELSE SamplingScripts(duration)

GcInputs ==
  /\ gcPc = "sampling"
  /\ gcDuration \in ClipDurations \cup {TenSeconds}
  /\ gcScript \in ScriptsFor(gcDuration)
  /\ gcFrames = <<>>
  /\ gcClips = <<>>

GcOff ==
  /\ gcPc = "off"
  /\ gcDuration = 0
  /\ gcScript = NoScript
  /\ gcFrames = <<>>
  /\ gcClips = <<>>

\* The sampling loop ran over all samples without being aborted.
SamplingLoop ==
  /\ gcPc = "sampling"
  /\ gcFrames' = CollectFrames(0, TotalSamples(gcDuration), gcDuration,
                    gcScript.cuts,
                    [v \in DOMAIN gcScript.values |->
                       AnalyzeSample(gcScript.values[v], 0, FullFrame, PortraitCrop)],
                    gcScript.dropped)
  /\ gcPc' = "sampled"
  /\ UNCHANGED <<gcDuration, gcScript, gcClips, mergeVars, spVars, cpVars, bbVars,
                 storeVars, editorVars, fbVars,
                 shVars,
                 diVars,
                 exVars,
                 tlVars>>

\* The loop ended without abort: clips are generated and merged.
GenerateClips ==
  /\ gcPc = "sampled"
  /\ gcClips' = GenerateAndMerge(gcFrames, gcDuration)
  /\ gcPc' = "done"
  /\ UNCHANGED <<gcDuration, gcScript, gcFrames, mergeVars, spVars, cpVars, bbVars,
                 storeVars, editorVars, fbVars,
                 shVars,
                 diVars,
                 exVars,
                 tlVars>>

(***************************************************************************)
(* The VideoEditor component: platform selection, triggerAnalysis,         *)
(* runBlackBarDetection and runHardCutAnalysis as interleaved async calls  *)
(***************************************************************************)
Ratios == {"16:9", "9:16", "1:1"}

\* calculateCropRegion(videoFile.width, videoFile.height, aspectRatio): the
\* largest centred region of the ratio inside the video (its size).
CropRegionOf(ratio) ==
  IF ratio = "16:9" THEN [width |-> VideoWidth, height |-> VideoHeight]
  ELSE IF ratio = "9:16" THEN PortraitCrop
  ELSE [width |-> VideoHeight, height |-> VideoHeight]

\* The detector result of the frame shown at time t of a video.
FacesAt(v, t) == v.values[SegmentOf(t \div SamplingInterval, v.cuts)]

\* What detectBlackBars resolves to on a video whose frames all carry the
\* bars v.bars: five frames pushed, then the maxima.
DetectBars(v) ==
  BlackBarsResult(
    PushBars(PushBars(PushBars(PushBars(PushBars(InitialMaxArrays,
      v.bars), v.bars), v.bars), v.bars), v.bars), FullFrame)

\* The editor state that the continuations of the async calls write.
Snapshot ==
  [runs |-> runs, video |-> video, safeArea |-> safeArea,
   blackBars |-> blackBars, isAnalyzing |-> isAnalyzing,
   currentAnalyzingRatio |-> currentAnalyzingRatio,
   analysisProgress |-> analysisProgress,
   analysisAbortController |-> analysisAbortController,
   analyzedRatios |-> analyzedRatios, editProjects |-> editProjects,
   currentEditProject |-> currentEditProject,
   generatedClips |-> generatedClips, cropPosition |-> cropPosition,
   savedProjects |-> savedProjects]

Install(s) ==
  /\ runs' = s.runs
  /\ video' = s.video
  /\ safeArea' = s.safeArea
  /\ blackBars' = s.blackBars
  /\ isAnalyzing' = s.isAnalyzing
  /\ currentAnalyzingRatio' = s.currentAnalyzingRatio
  /\ analysisProgress' = s.analysisProgress
  /\ analysisAbortController' = s.analysisAbortController
  /\ analyzedRatios' = s.analyzedRatios
  /\ editProjects' = s.editProjects
  /\ currentEditProject' = s.currentEditProject
  /\ generatedClips' = s.generatedClips
  /\ cropPosition' = s.cropPosition
  /\ savedProjects' = s.savedProjects

Fraction(n, d) == [num |-> n, den |-> d]

\* A call of triggerAnalysis that got past line 200.  closure holds the values
\* of the render in which the call was scheduled.  behind counts the pending
\* setTimeout(..., 100) of the effect that were set before the call entered
\* the 100 ms render delay it is waiting in (blackBarDetector.ts line 57,
\* part_001 line 125): timers of equal delay fire in the order they were set.
\* detections, samples, canceled and committed record what happened to the
\* call.
NewRun(ratio, closure) ==
  [ratio |-> ratio, pc |-> "bb1", i |-> 0, aborted |-> FALSE,
   behind |-> Len(timers) - 1,
   closure |-> closure, currentSafeArea |-> Null, frameAnalyses |-> <<>>,
   detections |-> <<>>, samples |-> <<>>, canceled |-> FALSE,
   committed |-> Null]

\* Lines 222-227 and 249-254: saveEditProject, setEditProject,
\* addAnalyzedRatio, setCurrentEditProject, setGeneratedClips.
CommitProject(s, r, project) ==
  [s EXCEPT !.savedProjects[project.targetAspectRatio] = Some(project),
            !.editProjects[project.targetAspectRatio] = Some(project),
            !.analyzedRatios = @ \cup {project.targetAspectRatio},
            !.currentEditProject = Some(project),
            !.generatedClips = project.clips,
            !.runs[r].committed = Some(project)]

\* Lines 256-258: setCropPosition(project.clips[0].cropPosition)
SetFirstCropPosition(s, project) ==
  IF Len(project.clips) > 0
    THEN [s EXCEPT !.cropPosition = project.clips[1].cropPosition]
    ELSE s

\* The finally block of the hard-cut branch, lines 259-263.
FinallyHardCut(s, r) ==
  [s EXCEPT !.isAnalyzing = FALSE, !.currentAnalyzingRatio = Null,
            !.analysisAbortController = Null, !.runs[r].pc = "done"]

\* The finally block of the 16:9 branch, lines 228-232.
FinallyWide(s, r) ==
  [s EXCEPT !.isAnalyzing = FALSE, !.currentAnalyzingRatio = Null,
            !.analysisProgress = Fraction(1, 1), !.runs[r].pc = "done"]

\* Lines 209-227: the single clip and the project of the 16:9 branch, built
\* from what runBlackBarDetection returned.
WideProject(v, ratio, blackBarResult) ==
  [clips |-> <<Clip(1, 0, v.duration,
                    [x |-> IF blackBarResult = Null THEN 0 ELSE blackBarResult[1].left,
                     y |-> IF blackBarResult = Null THEN 0 ELSE blackBarResult[1].top],
                    FALSE)>>,
   blackBars |-> blackBarResult, trajectory |-> <<>>,
   targetAspectRatio |-> ratio]

\* Lines 167-175: the project of runHardCutAnalysis; blackBars is the value of
\* the render that created the callback.
HardCutProject(v, run) ==
  [clips |-> GenerateAndMerge(run.frameAnalyses, v.duration),
   blackBars |-> run.closure.blackBars, trajectory |-> <<>>,
   targetAspectRatio |-> run.ratio]

\* Mutant: the abort signal is tested before the first sample and behind the
\* loop, but not at the top of the later iterations.
LoopTopCheckedOnce(s, r, v) ==
  LET run == s.runs[r] IN
  IF run.aborted /\ (run.i = 0 \/ run.i > TotalSamples(v.duration))
    THEN FinallyHardCut(s, r)
  ELSE IF run.i <= TotalSamples(v.duration)
    THEN [s EXCEPT !.video = [currentTime |-> SampleTime(run.i, v.duration),
                              seeking |-> TRUE],
                   !.runs[r].pc = "seeked"]
    ELSE LET project == HardCutProject(v, run)
             seekBack == [s EXCEPT !.video = [currentTime |-> 0, seeking |-> TRUE]]
         IN FinallyHardCut(
              SetFirstCropPosition(CommitProject(seekBack, r, project), project), r)

\* Run r is at the top of iteration i of the loop (line 114), or behind the
\* loop (line 165): it returns null when aborted (and triggerAnalysis returns
\* at line 247 through the finally block), seeks to the next sample, or builds
\* and commits the project.
LoopTop(s, r, v) ==
  LET run == s.runs[r] IN
  IF run.aborted THEN FinallyHardCut(s, r)
  ELSE IF run.i <= TotalSamples(v.duration)
    THEN [s EXCEPT !.video = [currentTime |-> SampleTime(run.i, v.duration),
                              seeking |-> TRUE],
                   !.runs[r].pc = "seeked"]
    ELSE LET project == HardCutProject(v, run)
             seekBack == [s EXCEPT !.video = [currentTime |-> 0, seeking |-> TRUE]]
         IN FinallyHardCut(
              SetFirstCropPosition(CommitProject(seekBack, r, project), project), r)

\* Lines 103-108: the loop is entered at once, or after the canplay event when
\* the element is below HAVE_FUTURE_DATA, as it is while a seek is in flight.
EnterLoop(s, r, v) ==
  IF s.video.seeking THEN [s EXCEPT !.runs[r].pc = "canplay"]
  ELSE LoopTop(s, r, v)

\* Lines 73-85 of runBlackBarDetection after detectBlackBars settled: result is
\* the detection, or null when it rejected.
StoreBars(s, result) ==
  IF result = Null
    THEN [s EXCEPT !.safeArea = Some(FullFrame)]
    ELSE [s EXCEPT !.blackBars = result,
                   !.safeArea = IF result[1].hasBlackBars
                                  THEN Some(result[1].safeArea)
                                  ELSE Some(FullFrame)]

\* What the caller of runBlackBarDetection does with its return value: line
\* 208 (16:9 branch), line 244 followed by lines 92-101 (hard-cut branch), or
\* line 97 (detection repeated by runHardCutAnalysis).
AfterBars(s, r, v, result) ==
  LET run == s.runs[r] IN
  IF run.pc = "bb1" /\ run.ratio = "16:9"
    THEN FinallyWide(CommitProject(s, r, WideProject(v, run.ratio, result)), r)
  ELSE IF run.pc = "bb1"
    THEN IF run.closure.safeArea = Null
           THEN [s EXCEPT !.runs[r].pc = "bb2", !.runs[r].behind = Len(timers)]
           ELSE EnterLoop([s EXCEPT !.runs[r].currentSafeArea = run.closure.safeArea],
                          r, v)
  ELSE EnterLoop([s EXCEPT !.runs[r].currentSafeArea =
                     IF result = Null THEN Some(FullFrame)
                     ELSE Some(result[1].safeArea)], r, v)

\* runBlackBarDetection settled for run r.
BarsSettled(s, r, v, result) ==
  AfterBars(StoreBars([s EXCEPT !.runs[r].detections =
                          Append(@, IF result = Null THEN "failed" ELSE "ok")],
                      result), r, v, result)

\* cancelCurrentAnalysis of the store: the stored controller is aborted.
\* Every call in progress is marked as having seen the cancellation.
cancelCurrentAnalysis(s) ==
  [s EXCEPT !.runs = [r \in 1..Len(s.runs) |->
     [s.runs[r] EXCEPT
        !.aborted = @ \/ s.analysisAbortController = Some(r),
        !.canceled = @ \/ s.runs[r].pc # "done"]]]

\* A timer of the effect fired: the delays started after it was set no longer
\* wait for it.
TimerFired(s) ==
  [s EXCEPT !.runs = [r \in 1..Len(s.runs) |->
     [s.runs[r] EXCEPT !.behind = Max2(0, @ - 1)]]]

\* One iteration body, lines 127-162, for run r: entry is the FrameAnalysis
\* pushed (or null when the try block threw), outcome names what happened.
SampleDone(s, r, v, entry, outcome) ==
  LET run == s.runs[r]
      total == TotalSamples(v.duration)
      logged == [i |-> run.i, time |-> SampleTime(run.i, v.duration),
                 outcome |-> outcome, pushed |-> entry # Null,
                 progress |-> Fraction(run.i + 1, total + 1)]
  IN LoopTop([s EXCEPT !.runs[r].frameAnalyses = @ \o entry,
                       !.runs[r].samples = Append(@, logged),
                       !.runs[r].i = @ + 1,
                       !.analysisProgress = Fraction(run.i + 1, total + 1)],
             r, v)

\* The canplay listeners of all waiting calls run, in registration order.
RECURSIVE ResumeCanPlay(_, _, _)
ResumeCanPlay(s, r, v) ==
  IF r > Len(s.runs) THEN s
  ELSE IF runs[r].pc = "canplay"
    THEN ResumeCanPlay(LoopTop(s, r, v), r + 1, v)
    ELSE ResumeCanPlay(s, r + 1, v)

(***************************************************************************)
(* Inputs of the editor: the video and what the user and the detector do   *)
(***************************************************************************)
MaxRatioChanges == 2

MaxFailures == 1

\* After the selections above the user returns at most this many times to a
\* platform whose ratio has been analysed (the cached branch, lines 184-194).
MaxRevisits == 1

\* Bars carried by all frames of a video: none, or a letterbox.
VideoBars ==
  {[top |-> 0, bottom |-> 0, left |-> 0, right |-> 0],
   [top |-> 60, bottom |-> 60, left |-> 0, right |-> 0]}

\* Contents of a 4.5 s video: constant, or changing at 2 s (a face that jumps
\* to the other side, a face that moves by 40 px, a face that appears).
LongContents ==
  {[cuts |-> {}, values |-> <<FaceLeft>>],
   [cuts |-> {}, values |-> <<NoFace>>],
   [cuts |-> {4}, values |-> <<FaceLeft, FaceRight>>],
   [cuts |-> {4}, values |-> <<FaceLeft, FaceLeftMoved>>],
   [cuts |-> {4}, values |-> <<NoFace, FaceLeft>>]}

\* A duration that is no multiple of the sampling interval: 0.7 s.
OddDuration == SamplingInterval + 200

\* A letterboxed video of duration 0 showing one face, videos of 0.5 s (two
\* samples) and 0.7 s (three samples) without bars, and videos of 4.5 s.
Videos ==
  {[duration |-> 0, cuts |-> {}, values |-> <<FaceLeft>>,
    bars |-> [top |-> 60, bottom |-> 60, left |-> 0, right |-> 0]],
   [duration |-> SamplingInterval, cuts |-> {}, values |-> <<FaceLeft>>,
    bars |-> [top |-> 0, bottom |-> 0, left |-> 0, right |-> 0]],
   [duration |-> OddDuration, cuts |-> {}, values |-> <<FaceLeft>>,
    bars |-> [top |-> 0, bottom |-> 0, left |-> 0, right |-> 0]]}
  \cup
  {[duration |-> 9 * SamplingInterval, cuts |-> c.cuts, values |-> c.values,
    bars |-> b] : c \in LongContents, b \in VideoBars}

\* Several platform selections are explored on the shortest video, two on
\* the video of two samples, one on the others.
SelectionsFor(v) ==
  IF v.duration = 0 THEN MaxRatioChanges
  ELSE IF v.duration = SamplingInterval THEN Min2(MaxRatioChanges, 2)
  ELSE 1

\* Returns to an analysed ratio are explored on the video of two samples.
RevisitsFor(v) == IF v.duration = SamplingInterval THEN MaxRevisits ELSE 0

\* Sample failures are explored on the videos of 4.5 s.
FailuresFor(v) == IF v.duration <= SamplingInterval THEN 0 ELSE MaxFailures

EditorInputs ==
  /\ videoFile \in {Some(v) : v \in Videos}
  /\ cropRegion \in {Null, Some(PortraitCrop)}
  /\ safeArea = Null
  /\ blackBars = Null
  /\ isAnalyzing = FALSE
  /\ currentAnalyzingRatio = Null
  /\ analysisProgress = Fraction(0, 1)
  /\ analysisAbortController = Null
  /\ analyzedRatios = {}
  /\ editProjects = [r \in Ratios |-> Null]
  /\ currentEditProject = Null
  /\ generatedClips = <<>>
  /\ cropPosition = [x |-> 0, y |-> 0]
  /\ previousRatioRef = Null
  /\ timers = <<>>
  /\ savedProjects = [r \in Ratios |-> Null]
  /\ video = [currentTime |-> 0, seeking |-> FALSE]
  /\ runs = <<>>
  /\ lastTriggered = Null
  /\ selectionsLeft = SelectionsFor(videoFile[1])
  /\ revisitsLeft = RevisitsFor(videoFile[1])
  /\ failuresLeft = FailuresFor(videoFile[1])

EditorOff ==
  /\ videoFile = Null
  /\ cropRegion = Null
  /\ safeArea = Null
  /\ blackBars = Null
  /\ isAnalyzing = FALSE
  /\ currentAnalyzingRatio = Null
  /\ analysisProgress = Fraction(0, 1)
  /\ analysisAbortController = Null
  /\ analyzedRatios = {}
  /\ editProjects = [r \in Ratios |-> Null]
  /\ currentEditProject = Null
  /\ generatedClips = <<>>
  /\ cropPosition = [x |-> 0, y |-> 0]
  /\ previousRatioRef = Null
  /\ timers = <<>>
  /\ savedProjects = [r \in Ratios |-> Null]
  /\ video = [currentTime |-> 0, seeking |-> FALSE]
  /\ runs = <<>>
  /\ lastTriggered = Null
  /\ selectionsLeft = 0
  /\ revisitsLeft = 0
  /\ failuresLeft = 0

otherVars == <<mergeVars, spVars, cpVars, bbVars, gcVars, fbVars, shVars,
                 diVars,
                 exVars,
                 tlVars>>

(***************************************************************************)
(* Handlers of the editor                                                  *)
(***************************************************************************)
\* The effect of lines 272-286 after the user selected a platform of another
\* ratio: the crop region follows, and triggerAnalysis of this render is
\* scheduled.  x and y of cropRegion mirror cropPosition (lines 288-294) and
\* are left out.
SelectPlatform ==
  /\ videoFile # Null
  /\ \E newRatio \in Ratios :
       LET region == CropRegionOf(newRatio) IN
       /\ previousRatioRef # Some(newRatio)
       /\ IF selectionsLeft > 0
            THEN /\ selectionsLeft' = selectionsLeft - 1
                 /\ UNCHANGED revisitsLeft
            ELSE /\ revisitsLeft > 0
                 /\ newRatio \in analyzedRatios
                 /\ revisitsLeft' = revisitsLeft - 1
                 /\ UNCHANGED selectionsLeft
       /\ IF cropRegion = Null \/ cropRegion # Some(region)
            THEN /\ cropRegion' = Some(region)
                 /\ cropPosition' = [x |-> Half(VideoWidth - region.width),
                                     y |-> Half(VideoHeight - region.height)]
            ELSE UNCHANGED <<cropRegion, cropPosition>>
       /\ previousRatioRef' = Some(newRatio)
       /\ timers' = Append(timers,
            [ratio |-> newRatio,
             closure |-> [isAnalyzing |-> isAnalyzing,
                          currentAnalyzingRatio |-> currentAnalyzingRatio,
                          cropRegion |-> cropRegion, safeArea |-> safeArea,
                          blackBars |-> blackBars]])
  /\ UNCHANGED <<videoFile, safeArea, blackBars, isAnalyzing,
                 currentAnalyzingRatio, analysisProgress,
                 analysisAbortController, analyzedRatios, editProjects,
                 currentEditProject, generatedClips, savedProjects, video,
                 runs, lastTriggered, failuresLeft, otherVars>>

\* The oldest timer fires: triggerAnalysis(ratio) of the render that scheduled
\* it runs up to its first await (lines 181-208 or 181-244).
TriggerAnalysis ==
  /\ timers # <<>>
  /\ timers' = Tail(timers)
  /\ LET ratio == Head(timers).ratio
         c == Head(timers).closure
         fired == TimerFired(Snapshot)
         canceled == IF c.isAnalyzing /\ c.currentAnalyzingRatio # Some(ratio)
                       THEN cancelCurrentAnalysis(fired) ELSE fired
         started == [canceled EXCEPT
                       !.isAnalyzing = TRUE,
                       !.currentAnalyzingRatio = Some(ratio),
                       !.analysisProgress = Fraction(0, 1),
                       !.runs = Append(@, NewRun(ratio, c))]
     IN IF videoFile = Null \/ c.cropRegion = Null
          THEN Install(fired)
        ELSE IF ratio \in analyzedRatios /\ savedProjects[ratio] # Null
          THEN Install([fired EXCEPT
                          !.currentEditProject = savedProjects[ratio],
                          !.generatedClips = savedProjects[ratio][1].clips])
        ELSE IF c.isAnalyzing /\ c.currentAnalyzingRatio = Some(ratio)
          THEN Install(canceled)
        ELSE IF ratio = "16:9"
          THEN Install(started)
        ELSE Install([started EXCEPT
                        !.analysisAbortController = Some(Len(runs) + 1),
                        !.generatedClips = <<>>])
  /\ lastTriggered' = IF videoFile = Null \/ Head(timers).closure.cropRegion = Null
                        THEN lastTriggered ELSE Some(Head(timers).ratio)
  /\ UNCHANGED <<videoFile, cropRegion, previousRatioRef, selectionsLeft,
                 revisitsLeft, failuresLeft, otherVars>>

\* detectBlackBars resolved for a call awaiting runBlackBarDetection.
BlackBarsDetected ==
  /\ \E r \in DOMAIN runs :
       /\ runs[r].pc \in {"bb1", "bb2"}
       /\ runs[r].behind = 0
       /\ Install(BarsSettled(Snapshot, r, videoFile[1],
                              Some(DetectBars(videoFile[1]))))
  /\ UNCHANGED <<videoFile, cropRegion, previousRatioRef, timers,
                 lastTriggered, selectionsLeft, revisitsLeft, failuresLeft,
                 otherVars>>

\* detectBlackBars rejected for a call awaiting runBlackBarDetection: the
\* error event of its video element, which waits for no render delay.
BlackBarsRejected ==
  /\ \E r \in DOMAIN runs :
       /\ runs[r].pc \in {"bb1", "bb2"}
       /\ Install(BarsSettled(Snapshot, r, videoFile[1], Null))
  /\ UNCHANGED <<videoFile, cropRegion, previousRatioRef, timers,
                 lastTriggered, selectionsLeft, revisitsLeft, failuresLeft,
                 otherVars>>

\* The video element fires canplay, the seek being over.
CanPlay ==
  /\ \E r \in DOMAIN runs : runs[r].pc = "canplay"
  /\ ~video.seeking
  /\ Install(ResumeCanPlay(Snapshot, 1, videoFile[1]))
  /\ UNCHANGED <<videoFile, cropRegion, previousRatioRef, timers,
                 lastTriggered, selectionsLeft, revisitsLeft, failuresLeft,
                 otherVars>>

\* The video element fires seeked: every call waiting at lines 120-123 goes on
\* to the render delay and the detector call.
VideoSeeked ==
  /\ video.seeking
  /\ video' = [video EXCEPT !.seeking = FALSE]
  /\ runs' = [r \in DOMAIN runs |->
                IF runs[r].pc = "seeked"
                  THEN [runs[r] EXCEPT !.pc = "detect", !.behind = Len(timers)]
                  ELSE runs[r]]
  /\ UNCHANGED <<storeVars, generatedClips, cropPosition, previousRatioRef,
                 timers, savedProjects, lastTriggered, selectionsLeft,
                 revisitsLeft, failuresLeft, otherVars>>

\* The detector resolved with the faces of the frame the element shows, and
\* lines 129-162 ran.
DetectorResolves ==
  /\ \E r \in DOMAIN runs :
       /\ runs[r].pc = "detect"
       /\ runs[r].behind = 0
       /\ LET v == videoFile[1]
              entry == AnalyzeSample(FacesAt(v, video.currentTime),
                         SampleTime(runs[r].i, v.duration),
                         runs[r].currentSafeArea[1],
                         runs[r].closure.cropRegion[1])
          IN Install(SampleDone(Snapshot, r, v, Some(entry), "faces"))
  /\ UNCHANGED <<videoFile, cropRegion, previousRatioRef, timers,
                 lastTriggered, selectionsLeft, revisitsLeft, failuresLeft,
                 otherVars>>

\* The detector met a frame that is not ready, or failed inside: it resolved
\* with an empty list (part_002 lines 788-795, 916-925), and lines 129-162 ran.
DetectorReturnsEmpty ==
  /\ failuresLeft > 0
  /\ failuresLeft' = failuresLeft - 1
  /\ \E r \in DOMAIN runs :
       /\ runs[r].pc = "detect"
       /\ runs[r].behind = 0
       /\ LET v == videoFile[1]
              entry == AnalyzeSample(<<>>, SampleTime(runs[r].i, v.duration),
                         runs[r].currentSafeArea[1],
                         runs[r].closure.cropRegion[1])
          IN Install(SampleDone(Snapshot, r, v, Some(entry), "notReady"))
  /\ UNCHANGED <<videoFile, cropRegion, previousRatioRef, timers,
                 lastTriggered, selectionsLeft, revisitsLeft, otherVars>>

\* The try block of lines 127-157 threw: the catch of line 158 logged it.
SampleThrows ==
  /\ failuresLeft > 0
  /\ failuresLeft' = failuresLeft - 1
  /\ \E r \in DOMAIN runs :
       /\ runs[r].pc = "detect"
       /\ runs[r].behind = 0
       /\ Install(SampleDone(Snapshot, r, videoFile[1], Null, "throws"))
  /\ UNCHANGED <<videoFile, cropRegion, previousRatioRef, timers,
                 lastTriggered, selectionsLeft, revisitsLeft, otherVars>>

(***************************************************************************)
(* Speaking detection: detectFacesWithSpeakingDetection and the history    *)
(* of mouth openness it keeps (part_002 lines 783-927).  Openness is in    *)
(* thousandths, scores are fractions.                                      *)
(***************************************************************************)
\* if (history.length > 10) history.shift()
HistoryLimit == 10

\* if (now - historyTimestamp > 2000) mouthMovementHistory.delete(key)
HistoryMaxAge == 2000

\* isSpeaking = mouthOpenness > 0.02, in thousandths
EarlyOpenness == 20

\* const faceId = `${timestamp}-${i}`
FaceId(timestamp, i) == <<timestamp, i>>

\* history.push({ openness, timestamp }); if (history.length > 10) shift()
PushHistory(history, entry) ==
  LET pushed == Append(history, entry) IN
  IF Len(pushed) > HistoryLimit THEN Tail(pushed) ELSE pushed

RECURSIVE SumOf(_)
SumOf(values) ==
  IF values = <<>> THEN 0 ELSE Head(values) + SumOf(Tail(values))

RECURSIVE SumOfSquares(_)
SumOfSquares(values) ==
  IF values = <<>> THEN 0
  ELSE Head(values) * Head(values) + SumOfSquares(Tail(values))

\* Math.max(...opennessValues) - Math.min(...opennessValues)
Amplitude(values) ==
  LET hi == CHOOSE v \in {values[k] : k \in 1..Len(values)} :
              \A k \in 1..Len(values) : v >= values[k]
      lo == CHOOSE v \in {values[k] : k \in 1..Len(values)} :
              \A k \in 1..Len(values) : v <= values[k]
  IN hi - lo

\* variance * 2 + amplitude * 3 + mean * 0.5 of n values in thousandths,
\* times n * n * 10^6: the variance is (n * sum of squares - sum^2) /
\* (n^2 * 10^6), the amplitude A / 1000, the mean sum / (1000 n).
ScoreNumerator(values) ==
  LET n == Len(values)
      sum == SumOf(values)
  IN 2 * (n * SumOfSquares(values) - sum * sum)
       + 3000 * Amplitude(values) * n * n + 500 * sum * n

VarianceScore(values) ==
  Fraction(ScoreNumerator(values), Len(values) * Len(values) * 1000000)

\* Lines 860-902: the face pushed for index i, given its history after the
\* push.  isSpeaking is speakingScore > 0.005, compared on the numerators.
\* early records which branch computed the score.
FaceWithSpeakingInfo(i, mouthOpenness, history) ==
  IF Len(history) >= 2
    THEN LET values == [k \in 1..Len(history) |-> history[k].openness]
         IN [faceIndex |-> i, speakingScore |-> VarianceScore(values),
             isSpeaking |->
               (ScoreNumerator(values) > 5000 * Len(values) * Len(values)),
             early |-> FALSE]
    ELSE [faceIndex |-> i, speakingScore |-> Fraction(mouthOpenness, 1000),
          isSpeaking |-> (mouthOpenness > EarlyOpenness),
          early |-> TRUE]

\* What can go wrong in a call: the video has no dimensions (line 788) or is
\* not ready (line 793), initFaceLandmarkerImage throws (line 797),
\* getContext returns null (line 804), the image fails to load (line 919),
\* landmarker.detect throws (line 813).
Failures ==
  {"zeroDimensions", "notReady", "initFailed", "noContext", "imageError",
   "detectThrows"}

\* Mutant: initFaceLandmarkerImage is awaited outside the try block.
SettleInitUncaught(failure) ==
  IF failure = "initFailed"
    THEN [settled |-> "rejected", faces |-> <<>>]
    ELSE [settled |-> "resolved", faces |-> <<>>]

\* How a failing call settles: return [] of lines 789, 794 and 805, the catch
\* of line 922 for an exception of the outer try block, resolve([]) of the
\* inner catch (line 917) and of img.onerror (line 919).
Settle(failure) ==
  CASE failure \in {"zeroDimensions", "notReady", "noContext"} ->
         [settled |-> "resolved", faces |-> <<>>]
    [] failure = "initFailed" -> [settled |-> "resolved", faces |-> <<>>]
    [] failure = "detectThrows" -> [settled |-> "resolved", faces |-> <<>>]
    [] failure = "imageError" -> [settled |-> "resolved", faces |-> <<>>]

\* Mutant: nothing is ever deleted.
CleanUpNothing(histories, now) == histories

\* Lines 906-913: entries whose key is older than two seconds are deleted.
CleanUp(histories, now) ==
  [key \in DOMAIN histories |->
     IF now - key[1] > HistoryMaxAge THEN <<>> ELSE histories[key]]

(***************************************************************************)
(* Inputs of the speaking detection                                        *)
(***************************************************************************)
\* Calls of the detector explored.
MaxCalls == 11

\* Calls that fail.
MaxDetectorFailures == 1

FaceIndices == {0, 1}

\* Videos: the mouth openness of each face, per sample of the loop of
\* runHardCutAnalysis.  A video of duration 0 (one sample) with one or two
\* faces, and videos of 2.5 s (six samples): a steady face, a face whose mouth
\* moves, two faces, a second face that comes and goes, a face that is
\* missing in one sample, a face whose mouth is nearly closed.
ShVideos ==
  {[duration |-> 0, openness |-> <<<<300>>>>],
   [duration |-> 0, openness |-> <<<<300, 10>>>>],
   [duration |-> 5 * SamplingInterval,
    openness |-> <<<<300>>, <<300>>, <<300>>, <<300>>, <<300>>, <<300>>>>],
   [duration |-> 5 * SamplingInterval,
    openness |-> <<<<10>>, <<300>>, <<10>>, <<300>>, <<10>>, <<300>>>>],
   [duration |-> 5 * SamplingInterval,
    openness |-> <<<<300, 10>>, <<10, 10>>, <<300, 10>>, <<10, 10>>,
                   <<300, 10>>, <<10, 10>>>>],
   [duration |-> 5 * SamplingInterval,
    openness |-> <<<<300>>, <<300, 10>>, <<300, 10>>, <<300>>, <<300>>,
                   <<300, 10>>>>],
   [duration |-> 5 * SamplingInterval,
    openness |-> <<<<300>>, <<300>>, <<>>, <<300>>, <<300>>, <<300>>>>],
   [duration |-> 5 * SamplingInterval,
    openness |-> <<<<15>>, <<15>>, <<15>>, <<15>>, <<15>>, <<15>>>>]}

\* The face ids a video can give rise to.
FaceIds(v) ==
  {FaceId(SampleTime(i, v.duration), f) :
     i \in 0..TotalSamples(v.duration), f \in FaceIndices}

ShInputs ==
  /\ shPc = "run"
  /\ shVideo \in {Some(v) : v \in ShVideos}
  /\ shIndex = 0
  /\ shCalls = 0
  /\ shTime = 0
  /\ shFaces = <<>>
  /\ shSeen = [f \in FaceIndices |-> 0]
  /\ mouthMovementHistory = [key \in FaceIds(shVideo[1]) |-> <<>>]
  /\ shFailure = "none"
  /\ shSettled = "none"
  /\ shFailuresLeft = MaxDetectorFailures
  /\ shRun = 1
  /\ shFirstRun = [i \in 0..TotalSamples(shVideo[1].duration) |-> Null]

ShOff ==
  /\ shPc = "off"
  /\ shVideo = Null
  /\ shIndex = 0
  /\ shCalls = 0
  /\ shTime = 0
  /\ shFaces = <<>>
  /\ shSeen = [f \in FaceIndices |-> 0]
  /\ mouthMovementHistory = <<>>
  /\ shFailure = "none"
  /\ shSettled = "none"
  /\ shFailuresLeft = 0
  /\ shRun = 0
  /\ shFirstRun = <<>>

\* Line 128 of runHardCutAnalysis calls the detector for sample shIndex with
\* timestamp Math.round(time * 1000).  Either one of the Failures happens and
\* the call settles as Settle says, or lines 821-915 of the detector run.
DetectFacesWithSpeakingDetection ==
  /\ shPc = "run"
  /\ shCalls < MaxCalls
  /\ shIndex <= TotalSamples(shVideo[1].duration)
  /\ \E failure \in Failures \cup {"none"} :
       LET timestamp == SampleTime(shIndex, shVideo[1].duration)
           openness == shVideo[1].openness[shIndex + 1]
           pushed == [key \in DOMAIN mouthMovementHistory |->
                        IF key[1] = timestamp /\ key[2] < Len(openness)
                          THEN PushHistory(mouthMovementHistory[key],
                                 [openness |-> openness[key[2] + 1],
                                  timestamp |-> timestamp])
                          ELSE mouthMovementHistory[key]]
           faces == [k \in 1..Len(openness) |->
                       FaceWithSpeakingInfo(k - 1, openness[k],
                                            pushed[FaceId(timestamp, k - 1)])]
       IN /\ shFailure' = failure
          /\ shTime' = timestamp
          /\ IF failure = "none"
               THEN /\ shFaces' = faces
                    /\ shSettled' = "resolved"
                    /\ mouthMovementHistory' = CleanUp(pushed, timestamp)
                    /\ shSeen' = [f \in FaceIndices |->
                                    IF f < Len(openness) THEN shSeen[f] + 1
                                    ELSE 0]
                    /\ shFirstRun' = IF shRun = 1
                                       THEN [shFirstRun EXCEPT ![shIndex] = Some(faces)]
                                       ELSE shFirstRun
                    /\ UNCHANGED shFailuresLeft
               ELSE /\ shFailuresLeft > 0
                    /\ shFailuresLeft' = shFailuresLeft - 1
                    /\ shFaces' = Settle(failure).faces
                    /\ shSettled' = Settle(failure).settled
                    /\ shSeen' = [f \in FaceIndices |-> 0]
                    /\ UNCHANGED <<mouthMovementHistory, shFirstRun>>
  /\ shIndex' = shIndex + 1
  /\ shCalls' = shCalls + 1
  /\ UNCHANGED <<shPc, shVideo, shRun, mergeVars, spVars, cpVars, bbVars,
                 gcVars, fbVars, storeVars, editorVars, diVars,
                 exVars,
                 tlVars>>

\* Another call of runHardCutAnalysis starts its loop at i = 0 (the analysis
\* of another ratio, or of the same one after a cancellation); the history
\* map is module state and is kept.
StartAnalysis ==
  /\ shPc = "run"
  /\ shIndex > 0
  /\ shCalls < MaxCalls
  /\ shIndex' = 0
  /\ shRun' = shRun + 1
  /\ shSeen' = [f \in FaceIndices |-> 0]
  /\ UNCHANGED <<shPc, shVideo, shCalls, shTime, shFaces, shFailure,
                 shSettled, shFailuresLeft, shFirstRun,
                 mouthMovementHistory, mergeVars, spVars, cpVars, bbVars,
                 gcVars, fbVars, storeVars, editorVars, diVars,
                 exVars,
                 tlVars>>

(***************************************************************************)
(* Detector initialization: initFaceDetector, initFaceLandmarker,          *)
(* initFaceLandmarkerImage, initVideoFaceDetector (part_002 lines 272-     *)
(* 565).  The four routines have the same shape and share isInitializing;  *)
(* each has a singleton of its own.                                        *)
(***************************************************************************)
\* const cdnUrls = [ ... ] has three entries
CdnCount == 3

\* Concurrent callers explored.
MaxCallers == 3

Callers == 1..MaxCallers

\* The singletons of lines 260-263 that the callers ask for.
DetectorKinds == {"detector", "faceLandmarkerImage"}

\* A caller between isInitializing = true and the finally block.
Initializing(c) == c.pc \in {"resolver", "gpu", "cpu"}

\* Mutant: the wait is a single setTimeout (if instead of while).
MayLeaveWaitOnce(flag) == TRUE

\* while (isInitializing) { await setTimeout 100 }: the loop is left by a
\* wake-up that finds the flag cleared.
MayLeaveWait(flag) == ~flag

\* Lines 273-285 from the point reached after the singleton was found
\* missing and the flag clear: isInitializing = true, first CDN.
BeginInit(c) == [c EXCEPT !.pc = "resolver", !.cdn = 1]

\* return detector
ReturnSingleton(c, instance) ==
  [c EXCEPT !.pc = "returned", !.result = Some(instance)]

DiInputs ==
  /\ isInitializing = FALSE
  /\ detectors = [k \in DetectorKinds |-> Null]
  /\ creations = [k \in DetectorKinds |-> 0]
  /\ \E kinds \in [Callers -> DetectorKinds] :
       callers = [p \in Callers |->
                    [kind |-> kinds[p], pc |-> "idle", cdn |-> 0,
                     result |-> Null]]

DiOff ==
  /\ isInitializing = FALSE
  /\ detectors = <<>>
  /\ creations = <<>>
  /\ callers = <<>>

notDiVars == <<mergeVars, spVars, cpVars, bbVars, gcVars, fbVars, storeVars,
               editorVars, shVars, exVars, tlVars>>

\* Lines 273-287: a call up to its first await.
CallInit(p) ==
  LET c == callers[p] IN
  /\ c.pc = "idle"
  /\ IF detectors[c.kind] # Null
       THEN /\ callers' = [callers EXCEPT
                             ![p] = ReturnSingleton(c, detectors[c.kind][1])]
            /\ UNCHANGED isInitializing
       ELSE IF isInitializing
         THEN /\ callers' = [callers EXCEPT ![p].pc = "waiting"]
              /\ UNCHANGED isInitializing
         ELSE /\ callers' = [callers EXCEPT ![p] = BeginInit(c)]
              /\ isInitializing' = TRUE
  /\ UNCHANGED <<detectors, creations, notDiVars>>

\* Lines 279-285: a timer of the waiting loop fires and the loop is left.
LeaveWait(p) ==
  LET c == callers[p] IN
  /\ c.pc = "waiting"
  /\ MayLeaveWait(isInitializing)
  /\ IF detectors[c.kind] # Null
       THEN /\ callers' = [callers EXCEPT
                             ![p] = ReturnSingleton(c, detectors[c.kind][1])]
            /\ UNCHANGED isInitializing
       ELSE /\ callers' = [callers EXCEPT ![p] = BeginInit(c)]
            /\ isInitializing' = TRUE
  /\ UNCHANGED <<detectors, creations, notDiVars>>

\* catch (e) { lastError = e; continue } of lines 328-332, then the throw of
\* line 335 after the last CDN and the finally block of line 339.
NextCdn(p) ==
  LET c == callers[p] IN
  IF c.cdn < CdnCount
    THEN /\ callers' = [callers EXCEPT ![p].pc = "resolver",
                                       ![p].cdn = c.cdn + 1]
         /\ UNCHANGED isInitializing
    ELSE /\ callers' = [callers EXCEPT ![p].pc = "threw"]
         /\ isInitializing' = FALSE

\* Line 301: await FilesetResolver.forVisionTasks(cdnUrl) settles.
ResolverSettles(p) ==
  /\ callers[p].pc = "resolver"
  /\ \E ok \in BOOLEAN :
       IF ok
         THEN /\ callers' = [callers EXCEPT ![p].pc = "gpu"]
              /\ UNCHANGED isInitializing
         ELSE NextCdn(p)
  /\ UNCHANGED <<detectors, creations, notDiVars>>

\* Lines 305-327: await createFromOptions settles, with the GPU delegate and,
\* after its failure, with the CPU delegate; success assigns the singleton,
\* runs the finally block and returns.
CreateSettles(p) ==
  LET c == callers[p] IN
  /\ c.pc \in {"gpu", "cpu"}
  /\ \E ok \in BOOLEAN :
       IF ok
         THEN LET instance == [by |-> p, cdn |-> c.cdn, delegate |-> c.pc] IN
              /\ detectors' = [detectors EXCEPT ![c.kind] = Some(instance)]
              /\ creations' = [creations EXCEPT ![c.kind] = @ + 1]
              /\ callers' = [callers EXCEPT ![p] = ReturnSingleton(c, instance)]
              /\ isInitializing' = FALSE
         ELSE /\ IF c.pc = "gpu"
                   THEN /\ callers' = [callers EXCEPT ![p].pc = "cpu"]
                        /\ UNCHANGED isInitializing
                   ELSE NextCdn(p)
              /\ UNCHANGED <<detectors, creations>>
  /\ UNCHANGED notDiVars

(***************************************************************************)
(* Server-side export: serverSideExport and waitForJob                     *)
(* (src/lib/serverExport.ts)                                               *)
(***************************************************************************)
\* Status requests of waitForJob explored.
MaxPolls == 3

\* job.progress values the processing service reports, in percent.
JobProgress == {0, 50, 100}

\* What getJobStatus can come back with: job.status, or a response that is
\* not ok (line 100).
StatusResponses == {"pending", "processing", "completed", "failed", "httpError"}

\* onProgress(10 + Math.round(progress * 0.8))
ReportedProgress(progress) == 10 + (progress * 8 + 5) \div 10

\* Mutant: the try block of lines 177-219 has no catch.
ExitPlanNoCatch(event) ==
  CASE event = "abortAfterUpload" -> [delete |-> TRUE, then |-> "threw"]
    [] event = "completed" -> [delete |-> TRUE, then |-> "returned"]
    [] OTHER -> [delete |-> FALSE, then |-> "threw"]

\* How serverSideExport ends once the upload has succeeded: the abort check of
\* lines 172-175, step 5 (line 209), and the catch block of lines 215-218 for
\* everything thrown by steps 2 to 4.
ExitPlan(event) ==
  CASE event = "abortAfterUpload" -> [delete |-> TRUE, then |-> "threw"]
    [] event = "completed" -> [delete |-> TRUE, then |-> "returned"]
    [] event \in {"submitFailed", "waitRejected", "downloadFailed"} ->
         [delete |-> TRUE, then |-> "threw"]

\* await deleteVideo(videoUrl), or the end of the function without it.
Exit(event) ==
  IF ExitPlan(event).delete
    THEN /\ exPc' = "delete"
         /\ exAfter' = ExitPlan(event).then
         /\ exDeletes' = exDeletes + 1
    ELSE /\ exPc' = ExitPlan(event).then
         /\ UNCHANGED <<exAfter, exDeletes>>

\* checkStatus up to its await (lines 119-125): reject when the signal is
\* set, otherwise issue a status request.
CheckStatus ==
  IF exAborted
    THEN /\ exWait' = "rejected"
         /\ Exit("waitRejected")
         /\ UNCHANGED exPolls
    ELSE /\ exWait' = "pending"
         /\ exPc' = "status"
         /\ exPolls' = exPolls + 1
         /\ UNCHANGED <<exAfter, exDeletes>>

ExInputs ==
  /\ exPc = "upload"
  /\ exAborted \in BOOLEAN
  /\ exStored = FALSE
  /\ exUploaded = FALSE
  /\ exDeletes = 0
  /\ exFailedDeletes = 0
  /\ exAfter = "none"
  /\ exPolls = 0
  /\ exProgress = 5
  /\ exWait = "none"
  /\ exResolvedAborted = FALSE

ExOff ==
  /\ exPc = "off"
  /\ exAborted = FALSE
  /\ exStored = FALSE
  /\ exUploaded = FALSE
  /\ exDeletes = 0
  /\ exFailedDeletes = 0
  /\ exAfter = "none"
  /\ exPolls = 0
  /\ exProgress = 0
  /\ exWait = "none"
  /\ exResolvedAborted = FALSE

notExVars == <<mergeVars, spVars, cpVars, bbVars, gcVars, fbVars, storeVars,
               editorVars, shVars, diVars, tlVars>>

\* The caller sets the abort signal while the export is under way.
AbortExport ==
  /\ exPc \in {"upload", "submit", "status", "timer", "download", "delete"}
  /\ ~exAborted
  /\ exAborted' = TRUE
  /\ UNCHANGED <<exPc, exStored, exUploaded, exDeletes, exFailedDeletes,
                 exAfter, exPolls, exProgress, exWait, exResolvedAborted, notExVars>>

\* Lines 169-181: uploadVideo settles; after a successful upload the abort
\* check, then onProgress(10) and the call of submitExportJob.
UploadSettles ==
  /\ exPc = "upload"
  /\ \E ok \in BOOLEAN :
       IF ok
         THEN /\ exStored' = TRUE
              /\ exUploaded' = TRUE
              /\ IF exAborted
                   THEN /\ Exit("abortAfterUpload")
                        /\ UNCHANGED exProgress
                   ELSE /\ exPc' = "submit"
                        /\ exProgress' = 10
                        /\ UNCHANGED <<exAfter, exDeletes>>
         ELSE /\ exPc' = "threw"
              /\ UNCHANGED <<exStored, exUploaded, exAfter, exDeletes,
                             exProgress>>
  /\ UNCHANGED <<exAborted, exFailedDeletes, exPolls, exWait,
                 exResolvedAborted, notExVars>>

\* Lines 181-194 and 117-125: submitExportJob settles; on success waitForJob
\* is called and runs checkStatus up to its await.
SubmitSettles ==
  /\ exPc = "submit"
  /\ \E ok \in BOOLEAN :
       IF ok
         THEN CheckStatus
         ELSE /\ Exit("submitFailed")
              /\ UNCHANGED <<exPolls, exWait>>
  /\ UNCHANGED <<exAborted, exStored, exUploaded, exFailedDeletes, exProgress,
                 exResolvedAborted, notExVars>>

\* Lines 125-141 and 196-201: the status request in flight settles.  The last
\* request explored gets a final answer.
StatusSettles ==
  /\ exPc = "status"
  /\ \E response \in StatusResponses, progress \in JobProgress :
       /\ exPolls = MaxPolls => response \notin {"pending", "processing"}
       /\ response = "completed" => progress = 100
       /\ response = "pending" => progress = 0
       /\ CASE response = "httpError" ->
                 /\ exWait' = "rejected"
                 /\ Exit("waitRejected")
                 /\ UNCHANGED <<exProgress, exResolvedAborted>>
            [] response = "failed" ->
                 /\ exProgress' = ReportedProgress(progress)
                 /\ exWait' = "rejected"
                 /\ Exit("waitRejected")
                 /\ UNCHANGED exResolvedAborted
            [] response = "completed" ->
                 /\ exWait' = "resolved"
                 /\ exResolvedAborted' = exAborted
                 /\ exPc' = "download"
                 /\ exProgress' = 95
                 /\ UNCHANGED <<exAfter, exDeletes>>
            [] OTHER ->
                 /\ exProgress' = ReportedProgress(progress)
                 /\ exPc' = "timer"
                 /\ UNCHANGED <<exWait, exAfter, exDeletes, exResolvedAborted>>
  /\ UNCHANGED <<exAborted, exStored, exUploaded, exFailedDeletes, exPolls, notExVars>>

\* Line 137: the poll timer fires and checkStatus runs again.
PollTimerFires ==
  /\ exPc = "timer"
  /\ CheckStatus
  /\ UNCHANGED <<exAborted, exStored, exUploaded, exFailedDeletes, exProgress,
                 exResolvedAborted, notExVars>>

\* Lines 201-209: the download of the output settles.
DownloadSettles ==
  /\ exPc = "download"
  /\ \E ok \in BOOLEAN :
       IF ok THEN Exit("completed") ELSE Exit("downloadFailed")
  /\ UNCHANGED <<exAborted, exStored, exUploaded, exFailedDeletes, exPolls,
                 exProgress, exWait, exResolvedAborted,
                 notExVars>>

\* Lines 64-70 and what follows the await: del settles, a rejection is caught
\* and logged; then onProgress(100) and return blob, or the throw.
DeleteSettles ==
  /\ exPc = "delete"
  /\ \E ok \in BOOLEAN :
       /\ exStored' = IF ok THEN FALSE ELSE exStored
       /\ exFailedDeletes' = IF ok THEN exFailedDeletes ELSE exFailedDeletes + 1
  /\ exPc' = exAfter
  /\ exAfter' = "none"
  /\ exProgress' = IF exAfter = "returned" THEN 100 ELSE exProgress
  /\ UNCHANGED <<exAborted, exUploaded, exDeletes, exPolls, exWait,
                 exResolvedAborted, notExVars>>

(***************************************************************************)
(* Timeline: TimelineEditor (part_000) with the clip handlers VideoEditor  *)
(* passes to it (part_001 lines 523-534).  Times are in ms.                *)
(***************************************************************************)
\* const minDuration = 1 (second)
MinDuration == 1000

\* rect.width of the timeline element, in px.
TimelineWidth == 100

\* Horizontal distances of the mouse from where the drag began, in px.
DragDistances == {-100, -50, -10, 10, 50, 100}

\* Operations explored.
MaxEdits == 4

\* pxToTime: (px / rect.width) * duration
pxToTime(px, duration) == (px * duration) \div TimelineWidth

\* onClipResize of VideoEditor: prev.map(clip => clip.id === id ?
\* { ...clip, startTime: newStart, endTime: newEnd } : clip)
onClipResize(list, id, newStart, newEnd) ==
  [i \in 1..Len(list) |->
     IF list[i].id = id
       THEN [list[i] EXCEPT !.startTime = newStart, !.endTime = newEnd]
       ELSE list[i]]

\* onClipDelete of VideoEditor: prev.filter(c => c.id !== id)
onClipDelete(list, id) == SelectSeq(list, LAMBDA c : c.id # id)

\* restoredClips.forEach(clip => onClipResize(clip.id, clip.startTime,
\* clip.endTime)) of undo and redo, from the k-th restored clip on.
RECURSIVE RestoreClips(_, _, _)
RestoreClips(list, restored, k) ==
  IF k > Len(restored) THEN list
  ELSE RestoreClips(onClipResize(list, restored[k].id, restored[k].startTime,
                                 restored[k].endTime),
                    restored, k + 1)

\* saveToHistory (lines 44-49): the snapshots after historyIndex are dropped
\* and a copy of newClips is pushed.
saveToHistory(h, index, newClips) ==
  [history |-> Append(SubSeq(h, 1, index + 1), newClips),
   historyIndex |-> index + 1]

\* The effect of lines 51-55, which runs when the clips prop has changed.
ClipsEffect(h, index, list) ==
  IF list # h[index + 1] THEN saveToHistory(h, index, list)
  ELSE [history |-> h, historyIndex |-> index]

\* Lines 131-145 of handleMouseMove: the new times of the dragged clip.
DragTimes(drag, deltaTime, duration) ==
  LET movedStart == IF drag.type \in {"move", "resize-start"}
                      THEN drag.originalStartTime + deltaTime
                      ELSE drag.originalStartTime
      movedEnd == IF drag.type \in {"move", "resize-end"}
                    THEN drag.originalEndTime + deltaTime
                    ELSE drag.originalEndTime
      newStartTime == Max2(0, Min2(movedStart, duration - MinDuration))
      newEndTime == Max2(newStartTime + MinDuration, Min2(movedEnd, duration))
  IN [startTime |-> newStartTime, endTime |-> newEndTime]

NoDrag ==
  [type |-> Null, clipId |-> Null, originalStartTime |-> 0,
   originalEndTime |-> 0]

\* The clip lists the timeline starts with: the clips of a 0.5 s video, and
\* two or three clips covering a 3 s or 4 s video.
Timelines ==
  {[duration |-> SamplingInterval,
    clips |-> <<[id |-> 1, startTime |-> 0, endTime |-> SamplingInterval]>>],
   [duration |-> 3000,
    clips |-> <<[id |-> 1, startTime |-> 0, endTime |-> 1500],
                [id |-> 2, startTime |-> 1500, endTime |-> 3000]>>],
   [duration |-> 4000,
    clips |-> <<[id |-> 1, startTime |-> 0, endTime |-> 1000],
                [id |-> 2, startTime |-> 1000, endTime |-> 3000],
                [id |-> 3, startTime |-> 3000, endTime |-> 4000]>>]}

ClipIds(list) == {list[i].id : i \in 1..Len(list)}

ClipWithId(list, id) == list[CHOOSE i \in 1..Len(list) : list[i].id = id]

TlInputs ==
  /\ \E t \in Timelines :
       /\ tlDuration = t.duration
       /\ tlClips = t.clips
       /\ tlHistory = <<t.clips>>
  /\ historyIndex = 0
  /\ dragState = NoDrag
  /\ tlLast = [op |-> "none"]
  /\ editsLeft = MaxEdits

TlOff ==
  /\ tlDuration = 0
  /\ tlClips = <<>>
  /\ tlHistory = <<>>
  /\ historyIndex = 0
  /\ dragState = NoDrag
  /\ tlLast = [op |-> "none"]
  /\ editsLeft = 0

notTlVars == <<mergeVars, spVars, cpVars, bbVars, gcVars, fbVars, storeVars,
               editorVars, shVars, diVars, exVars>>

\* handleClipMouseDown (lines 108-121) on a clip or on one of its edges.
HandleClipMouseDown ==
  /\ editsLeft > 0
  /\ dragState.type = Null
  /\ \E id \in ClipIds(tlClips), type \in {"move", "resize-start", "resize-end"} :
       /\ dragState' = [type |-> Some(type), clipId |-> Some(id),
                        originalStartTime |-> ClipWithId(tlClips, id).startTime,
                        originalEndTime |-> ClipWithId(tlClips, id).endTime]
       /\ tlLast' = [op |-> "down"]
  /\ editsLeft' = editsLeft - 1
  /\ UNCHANGED <<tlDuration, tlClips, tlHistory, historyIndex, notTlVars>>

\* handleMouseMove (lines 123-150), the render that follows and the effect
\* of lines 51-55.
HandleMouseMove ==
  /\ editsLeft > 0
  /\ dragState.type # Null
  /\ dragState.clipId[1] \in ClipIds(tlClips)
  /\ \E deltaX \in DragDistances :
       LET times == DragTimes([dragState EXCEPT !.type = dragState.type[1]],
                              pxToTime(deltaX, tlDuration), tlDuration)
           resized == onClipResize(tlClips, dragState.clipId[1],
                                   times.startTime, times.endTime)
           saved == ClipsEffect(tlHistory, historyIndex, resized)
       IN /\ tlClips' = resized
          /\ tlHistory' = saved.history
          /\ historyIndex' = saved.historyIndex
          /\ tlLast' = [op |-> "drag", clipId |-> dragState.clipId[1]]
  /\ editsLeft' = editsLeft - 1
  /\ UNCHANGED <<tlDuration, dragState, notTlVars>>

\* handleMouseUp (lines 152-163).
HandleMouseUp ==
  /\ dragState.type # Null
  /\ LET saved == saveToHistory(tlHistory, historyIndex, tlClips) IN
       /\ tlHistory' = saved.history
       /\ historyIndex' = saved.historyIndex
  /\ dragState' = NoDrag
  /\ tlLast' = [op |-> "up"]
  /\ UNCHANGED <<tlDuration, tlClips, editsLeft, notTlVars>>

\* handleClipDoubleClick (lines 176-183), the render that follows and the
\* effect of lines 51-55.
HandleClipDoubleClick ==
  /\ editsLeft > 0
  /\ dragState.type = Null
  /\ \E id \in ClipIds(tlClips) :
       LET remaining == onClipDelete(tlClips, id)
           saved == ClipsEffect(tlHistory, historyIndex, remaining)
       IN /\ tlClips' = remaining
          /\ tlHistory' = saved.history
          /\ historyIndex' = saved.historyIndex
          /\ tlLast' = [op |-> "delete", clipId |-> id]
  /\ editsLeft' = editsLeft - 1
  /\ UNCHANGED <<tlDuration, dragState, notTlVars>>

\* undo (lines 57-67) and redo (lines 69-79) move historyIndex by step and
\* restore history[newIndex] through onClipResize; then the render and the
\* effect of lines 51-55 with the new index.
Restore(op, newIndex) ==
  LET restored == tlHistory[newIndex + 1]
      list == RestoreClips(tlClips, restored, 1)
      saved == ClipsEffect(tlHistory, newIndex, list)
  IN /\ tlClips' = list
     /\ tlHistory' = saved.history
     /\ historyIndex' = saved.historyIndex
     /\ tlLast' = [op |-> op, from |-> historyIndex, target |-> restored,
                   before |-> tlClips]

Undo ==
  /\ editsLeft > 0
  /\ dragState.type = Null
  /\ historyIndex > 0
  /\ Restore("undo", historyIndex - 1)
  /\ editsLeft' = editsLeft - 1
  /\ UNCHANGED <<tlDuration, dragState, notTlVars>>

Redo ==
  /\ editsLeft > 0
  /\ dragState.type = Null
  /\ historyIndex < Len(tlHistory) - 1
  /\ Restore("redo", historyIndex + 1)
  /\ editsLeft' = editsLeft - 1
  /\ UNCHANGED <<tlDuration, dragState, notTlVars>>

(***************************************************************************)
(* Specifications of the single functions                                  *)
(***************************************************************************)
InitMerge == MergeInputs /\ SpOff /\ CpOff /\ BbOff /\ GcOff /\ EditorOff /\ FbOff
  /\ ShOff /\ DiOff /\ ExOff /\ TlOff

NextMerge ==
  \/ OptimizeProject
  \/ OptimizeProjectAgain

SpecMerge == InitMerge /\ [][NextMerge]_vars

InitSpeaker == SpInputs /\ MergeOff /\ CpOff /\ BbOff /\ GcOff /\ EditorOff /\ FbOff
  /\ ShOff /\ DiOff /\ ExOff /\ TlOff

NextSpeaker == GetSpeakingPerson

SpecSpeaker == InitSpeaker /\ [][NextSpeaker]_vars

InitCrop == CpInputs /\ MergeOff /\ SpOff /\ BbOff /\ GcOff /\ EditorOff /\ FbOff
  /\ ShOff /\ DiOff /\ ExOff /\ TlOff

NextCrop == CalculateCropPositionFromFace

SpecCrop == InitCrop /\ [][NextCrop]_vars

InitBars == BbInputs /\ MergeOff /\ SpOff /\ CpOff /\ GcOff /\ EditorOff /\ FbOff
  /\ ShOff /\ DiOff /\ ExOff /\ TlOff

NextBars ==
  \/ BBLoadedMetadata
  \/ BBLoadError
  \/ BBFrameSampled
  \/ BBFrameThrows

SpecBars == InitBars /\ [][NextBars]_vars

InitClips == GcInputs /\ MergeOff /\ SpOff /\ CpOff /\ BbOff /\ EditorOff /\ FbOff
  /\ ShOff /\ DiOff /\ ExOff /\ TlOff

NextClips ==
  \/ SamplingLoop
  \/ GenerateClips

SpecClips == InitClips /\ [][NextClips]_vars

InitFrame ==
  FbInputs /\ MergeOff /\ SpOff /\ CpOff /\ BbOff /\ GcOff /\ EditorOff
  /\ ShOff /\ DiOff /\ ExOff /\ TlOff

NextFrame == DetectBlackBarsInFrame

SpecFrame == InitFrame /\ [][NextFrame]_vars

InitSpeaking ==
  ShInputs /\ MergeOff /\ SpOff /\ CpOff /\ BbOff /\ GcOff /\ EditorOff
  /\ FbOff /\ DiOff /\ ExOff /\ TlOff

NextSpeaking ==
  \/ DetectFacesWithSpeakingDetection
  \/ StartAnalysis

SpecSpeaking == InitSpeaking /\ [][NextSpeaking]_vars

InitDetectors ==
  DiInputs /\ MergeOff /\ SpOff /\ CpOff /\ BbOff /\ GcOff /\ EditorOff
  /\ FbOff /\ ShOff /\ ExOff /\ TlOff

NextDetectors ==
  \E p \in Callers :
    \/ CallInit(p)
    \/ LeaveWait(p)
    \/ ResolverSettles(p)
    \/ CreateSettles(p)

SpecDetectors == InitDetectors /\ [][NextDetectors]_vars

InitExport ==
  ExInputs /\ MergeOff /\ SpOff /\ CpOff /\ BbOff /\ GcOff /\ EditorOff
  /\ FbOff /\ ShOff /\ DiOff /\ TlOff

NextExport ==
  \/ AbortExport
  \/ UploadSettles
  \/ SubmitSettles
  \/ StatusSettles
  \/ PollTimerFires
  \/ DownloadSettles
  \/ DeleteSettles

SpecExport == InitExport /\ [][NextExport]_vars

InitTimeline ==
  TlInputs /\ MergeOff /\ SpOff /\ CpOff /\ BbOff /\ GcOff /\ EditorOff
  /\ FbOff /\ ShOff /\ DiOff /\ ExOff

NextTimeline ==
  \/ HandleClipMouseDown
  \/ HandleMouseMove
  \/ HandleMouseUp
  \/ HandleClipDoubleClick
  \/ Undo
  \/ Redo

SpecTimeline == InitTimeline /\ [][NextTimeline]_vars

(***************************************************************************)
(* Specification of the editor                                             *)
(***************************************************************************)
InitEditor == EditorInputs /\ MergeOff /\ SpOff /\ CpOff /\ BbOff /\ GcOff /\ FbOff
  /\ ShOff /\ DiOff /\ ExOff /\ TlOff

NextEditor ==
  \/ SelectPlatform
  \/ TriggerAnalysis
  \/ BlackBarsDetected
  \/ BlackBarsRejected
  \/ CanPlay
  \/ VideoSeeked
  \/ DetectorResolves
  \/ DetectorReturnsEmpty
  \/ SampleThrows

SpecEditor == InitEditor /\ [][NextEditor]_vars

(***************************************************************************)
(* Claims about the merge pass (SpecMerge)                                 *)
(***************************************************************************)
\* Squared Euclidean distance of the crop positions of two clips.
CropDist2(a, b) ==
  (a.cropPosition.x - b.cropPosition.x) * (a.cropPosition.x - b.cropPosition.x)
  + (a.cropPosition.y - b.cropPosition.y) * (a.cropPosition.y - b.cropPosition.y)

\* C4: two time-adjacent clips at crop distance strictly below the threshold
\* become one clip with the first clip's id and crop position spanning
\* first.startTime..second.endTime; at distance >= threshold (the threshold
\* itself included) both clips stay distinct and unchanged.
C4_MergePair ==
  (mergePc = "done" /\ Len(mergeIn) = 2) =>
    IF CropDist2(mergeIn[1], mergeIn[2]) < mergeThreshold * mergeThreshold
      THEN mergeOut = <<[mergeIn[1] EXCEPT !.endTime = mergeIn[2].endTime]>>
      ELSE mergeOut = mergeIn

\* C4 witness: a pair exactly at the default threshold was processed and both
\* clips were kept.
C4_Witness ==
  /\ mergePc = "done"
  /\ Len(mergeIn) = 2
  /\ mergeThreshold = DefaultPositionThreshold
  /\ CropDist2(mergeIn[1], mergeIn[2]) = mergeThreshold * mergeThreshold
  /\ Len(mergeOut) = 2

RetainedIds == {mergeOut[j].id : j \in 1..Len(mergeOut)}

\* The last input clip before k that the pass retained (ids are input positions).
LastRetainedBefore(k) ==
  CHOOSE j \in RetainedIds : j < k /\ \A i \in RetainedIds : i < k => i <= j

IsDriftingChain(clips, threshold) ==
  /\ Len(clips) = 3
  /\ CropDist2(clips[1], clips[2]) < threshold * threshold
  /\ CropDist2(clips[2], clips[3]) < threshold * threshold
  /\ CropDist2(clips[1], clips[3]) >= threshold * threshold

\* C5: the pass compares each clip with the last retained clip only: clip k is
\* merged iff its distance to the last retained clip is below the threshold,
\* and a drifting chain A, B, C gives [A extended to B.endTime, C].
C5_LastRetainedOnly ==
  mergePc = "done" =>
    /\ \A k \in 2..Len(mergeIn) :
         (k \notin RetainedIds) <=>
           (CropDist2(mergeIn[k], mergeIn[LastRetainedBefore(k)])
              < mergeThreshold * mergeThreshold)
    /\ IsDriftingChain(mergeIn, mergeThreshold) =>
         mergeOut = <<[mergeIn[1] EXCEPT !.endTime = mergeIn[2].endTime],
                      mergeIn[3]>>

\* C5 witness: a drifting chain was processed and gave two clips.
C5_Witness ==
  /\ mergePc = "done"
  /\ IsDriftingChain(mergeIn, mergeThreshold)
  /\ Len(mergeOut) = 2
  /\ mergeOut[2].id = 3

(***************************************************************************)
(* Claims about detectBlackBars (SpecBars)                                 *)
(***************************************************************************)
Edges == {"top", "bottom", "left", "right"}

\* C8: each final bar width is the maximum of the five per-frame estimates,
\* taken at the times 0, D/4, D/2, 3D/4, D in this order; so it is >= every
\* estimate, >= 0, and 0 only if all five estimates are 0.
C8_MaxPerEdge ==
  bbPc = "done" =>
    LET r == bbResult[1] IN
    /\ Len(bbFrames) = 5
    /\ bbSeeks = [k \in 1..5 |-> bbDuration * (k - 1)]
    /\ \A e \in Edges :
         /\ \A k \in 1..5 : r[e] >= bbFrames[k][e]
         /\ \E k \in 1..5 : r[e] = bbFrames[k][e]
         /\ r[e] >= 0
         /\ r[e] = 0 => \A k \in 1..5 : bbFrames[k][e] = 0

\* C8 witness: the maximum of the top edge comes from a middle frame, neither
\* the first nor the last one.
C8_Witness ==
  /\ bbPc = "done"
  /\ bbDuration = 10000
  /\ bbFrames[1].top = 60
  /\ bbFrames[3].top = 140
  /\ bbFrames[5].top = 0
  /\ bbResult[1].top = 140
  /\ bbResult[1].bottom = 60

(***************************************************************************)
(* Claims about getSpeakingPerson (SpecSpeaker)                            *)
(***************************************************************************)
\* The candidates: the flagged faces if there is one, else all faces.
SpeakerCandidates(faces) ==
  IF \E i \in 1..Len(faces) : faces[i].isSpeaking
    THEN {i \in 1..Len(faces) : faces[i].isSpeaking}
    ELSE 1..Len(faces)

\* [{isSpeaking:false, score:0.1}, {isSpeaking:true, score:0.05}]
SpeakerExample1 ==
  <<[isSpeaking |-> FALSE, speakingScore |-> 10, faceIndex |-> 0],
    [isSpeaking |-> TRUE, speakingScore |-> 5, faceIndex |-> 1]>>

\* [{isSpeaking:false, score:0.3}, {isSpeaking:false, score:0.1}]
SpeakerExample2 ==
  <<[isSpeaking |-> FALSE, speakingScore |-> 30, faceIndex |-> 0],
    [isSpeaking |-> FALSE, speakingScore |-> 10, faceIndex |-> 1]>>

\* C9: null iff the list is empty; otherwise the candidate with the highest
\* score, the lowest index among equals; the two examples give index 1 and 0.
C9_SpeakerSelection ==
  spPc = "done" =>
    /\ (spResult = Null) <=> (Len(spFaces) = 0)
    /\ Len(spFaces) > 0 =>
         LET cand == SpeakerCandidates(spFaces)
             best == CHOOSE i \in cand :
                       \A j \in cand :
                         \/ spFaces[j].speakingScore < spFaces[i].speakingScore
                         \/ /\ spFaces[j].speakingScore = spFaces[i].speakingScore
                            /\ i <= j
         IN spResult = <<spFaces[best]>>
    /\ spFaces = SpeakerExample1 => spResult[1].faceIndex = 1
    /\ spFaces = SpeakerExample2 => spResult[1].faceIndex = 0

\* C9 witness: two flagged faces tie on the highest score behind an unflagged
\* face with a higher score; the first flagged one is returned.
C9_Witness ==
  /\ spPc = "done"
  /\ Len(spFaces) = 3
  /\ ~spFaces[1].isSpeaking /\ spFaces[1].speakingScore = 30
  /\ spFaces[2].isSpeaking /\ spFaces[2].speakingScore = 10
  /\ spFaces[3].isSpeaking /\ spFaces[3].speakingScore = 10
  /\ spResult[1].faceIndex = 1

(***************************************************************************)
(* Claims about calculateCropPositionFromFace (SpecCrop)                   *)
(***************************************************************************)
\* C10 (as claimed): for every face box, safe-area size and crop size the
\* returned position keeps the crop rectangle inside the safe area.
C10_CropInsideSafeArea ==
  cpPc = "done" =>
    /\ 0 <= cpResult[1].x
    /\ cpResult[1].x + cpArgs.cropWidth <= cpArgs.videoWidth
    /\ 0 <= cpResult[1].y
    /\ cpResult[1].y + cpArgs.cropHeight <= cpArgs.videoHeight

(***************************************************************************)
(* Claims about the clip list of a completed run                           *)
(***************************************************************************)
SortedNoOverlap(clips) ==
  \A i \in 1..(Len(clips) - 1) :
    /\ clips[i].startTime <= clips[i + 1].startTime
    /\ clips[i].endTime <= clips[i + 1].startTime

\* C1: the clip list handed over by segmentation and merge is ordered by
\* startTime and adjacent clips do not overlap.
C1_SortedNoOverlap ==
  gcPc = "done" => SortedNoOverlap(gcClips)

\* C1 witness: a list of two clips was produced from frames with a gap, the
\* merge pass having removed a cut made by the segmenter.
C1_Witness ==
  /\ gcPc = "done"
  /\ Len(gcClips) = 2
  /\ Len(gcFrames) < TotalSamples(gcDuration) + 1
  /\ Len(generateHardCutClipsFromAnalysis(gcFrames, gcDuration)) = 3

(***************************************************************************)
(* Claims about the calls of triggerAnalysis (SpecEditor)                  *)
(***************************************************************************)
\* The clips start at 0, end at duration and leave no gap.
Covers(clips, duration) ==
  /\ Len(clips) > 0
  /\ clips[1].startTime = 0
  /\ clips[Len(clips)].endTime = duration
  /\ \A i \in 1..(Len(clips) - 1) : clips[i].endTime = clips[i + 1].startTime

\* C2: every clip list committed by an analysis run on a video of duration D
\* starts at 0, ends at D and has no gap between adjacent clips, on the
\* hard-cut path and on the 16:9 path.
C2_CommittedClipsCover ==
  \A r \in DOMAIN runs :
    runs[r].committed # Null =>
      Covers(runs[r].committed[1].clips, videoFile[1].duration)

\* C2 witness: a hard-cut run over 4.5 s in which one sample left no frame
\* committed two clips.
C2_Witness ==
  \E r \in DOMAIN runs :
    /\ runs[r].ratio # "16:9"
    /\ runs[r].committed # Null
    /\ Len(runs[r].committed[1].clips) = 2
    /\ videoFile[1].duration = 9 * SamplingInterval
    /\ \E k \in DOMAIN runs[r].samples : ~runs[r].samples[k].pushed

\* C3 (as claimed): a run that was in progress when cancelCurrentAnalysis was
\* invoked, or whose abort signal was set, never commits a project.
C3_CanceledNeverCommits ==
  \A r \in DOMAIN runs :
    (runs[r].canceled \/ runs[r].aborted) => runs[r].committed = Null

FailedOutcomes == {"notReady", "throws"}

\* C6 (as claimed): a sample whose detection failed (exception, or frame not
\* ready) adds no FrameAnalysis entry, progress is advanced for it, and a run
\* that is not aborted still visits every sample and commits clips.
C6_FailedSampleSkipped ==
  \A r \in DOMAIN runs :
    LET total == TotalSamples(videoFile[1].duration) IN
    /\ \A k \in DOMAIN runs[r].samples :
         runs[r].samples[k].outcome \in FailedOutcomes =>
           /\ ~runs[r].samples[k].pushed
           /\ runs[r].samples[k].progress = Fraction(k, total + 1)
    /\ (runs[r].pc = "done" /\ ~runs[r].aborted /\ runs[r].ratio # "16:9") =>
         /\ Len(runs[r].samples) = total + 1
         /\ runs[r].committed # Null

\* No black-bar result, or one with hasBlackBars = false.
NoBars(b) == b = Null \/ ~b[1].hasBlackBars

AllDetectionsFailed(run) ==
  /\ run.detections # <<>>
  /\ \A k \in DOMAIN run.detections : run.detections[k] = "failed"

\* C7 (as claimed): when the black-bar detection of a run failed, the run
\* analyses with the full frame as safe area, and the project it commits
\* carries no black bars.
C7_BarsFailureFallsBack ==
  \A r \in DOMAIN runs :
    AllDetectionsFailed(runs[r]) =>
      /\ safeArea # Null
      /\ runs[r].currentSafeArea # Null =>
           runs[r].currentSafeArea = Some(FullFrame)
      /\ runs[r].committed # Null => NoBars(runs[r].committed[1].blackBars)

(***************************************************************************)
(* Claims about the segmenter and the pipeline (SpecClips)                 *)
(***************************************************************************)
ClipLength(clip) == clip.endTime - clip.startTime

\* The list emitted by the segmenter (walk and absorption pass) for the
\* frames the sampling loop collected.
SegmenterOutput == generateHardCutClipsFromAnalysis(gcFrames, gcDuration)

Ranges(clips) ==
  [i \in 1..Len(clips) |->
     [startTime |-> clips[i].startTime, endTime |-> clips[i].endTime,
      cropPosition |-> clips[i].cropPosition]]

Range(s, e, pos) == [startTime |-> s, endTime |-> e, cropPosition |-> pos]

PositionDist2(p, q) == (p.x - q.x) * (p.x - q.x) + (p.y - q.y) * (p.y - q.y)

\* All 21 samples of the 10 s video were analysed.
TenSecondRunDone ==
  /\ gcPc = "done"
  /\ gcDuration = TenSeconds
  /\ Len(gcFrames) = TotalSamples(TenSeconds) + 1

\* The tracked speaker's crop position is constant on [0, 5) and constant
\* from t = 5 s on.
ShiftAtFive ==
  /\ TenSecondRunDone
  /\ \A k \in 1..Len(gcFrames) :
       /\ gcFrames[k].strategy = "speaker"
       /\ gcFrames[k].cropPosition =
            IF gcFrames[k].timestamp < 10 * SamplingInterval
              THEN gcFrames[1].cropPosition ELSE gcFrames[11].cropPosition

ShiftDist2 == PositionDist2(gcFrames[1].cropPosition, gcFrames[11].cropPosition)

TwoClipsAtFive ==
  Ranges(gcClips) =
    <<Range(0, 10 * SamplingInterval, gcFrames[1].cropPosition),
      Range(10 * SamplingInterval, TenSeconds, gcFrames[11].cropPosition)>>

C13_StaticFaceOneClip ==
  (/\ TenSecondRunDone
   /\ \A k \in 1..Len(gcFrames) :
        /\ Len(gcFrames[k].faces) = 1
        /\ gcFrames[k].faces = gcFrames[1].faces) =>
    /\ Len(gcClips) = 1
    /\ gcClips[1].startTime = 0
    /\ gcClips[1].endTime = TenSeconds
    /\ gcClips[1].cropPosition = gcFrames[1].cropPosition

\* C13 witness: 21 frames with the same single face were collected and one
\* clip was produced.
C13_Witness ==
  /\ TenSecondRunDone
  /\ \A k \in 1..Len(gcFrames) : gcFrames[k].faces = gcFrames[1].faces
  /\ Len(gcFrames[1].faces) = 1
  /\ gcFrames[21].timestamp = TenSeconds
  /\ Len(gcClips) = 1

(***************************************************************************)
(* Claims about the sampling loop of the editor (SpecEditor)               *)
(***************************************************************************)
\* a <= b for fractions with positive denominators.
FractionLeq(a, b) == a.num * b.den <= b.num * a.den

\* Run r is in progress and was not canceled.
Running(rs, r) ==
  /\ r \in DOMAIN rs
  /\ rs[r].pc # "done"
  /\ ~rs[r].canceled
  /\ ~rs[r].aborted

\* C14 (as claimed): between the reset of analysisProgress to 0 by a run and
\* the end of that run the value never decreases and never exceeds 1; every
\* processed sample, failed ones included, advances it to (i + 1) / (total + 1),
\* and a run that processed all samples leaves it at 1.
C14_ProgressMonotone ==
  [][/\ (\E r \in DOMAIN runs : Running(runs, r) /\ Running(runs', r)) =>
          /\ FractionLeq(analysisProgress, analysisProgress')
          /\ FractionLeq(analysisProgress', Fraction(1, 1))
     /\ \A r \in DOMAIN runs' :
          (Len(runs'[r].samples) > (IF r \in DOMAIN runs
                                      THEN Len(runs[r].samples) ELSE 0)) =>
            analysisProgress' = Last(runs'[r].samples).progress
    ]_vars

(***************************************************************************)
(* Claims about detectBlackBarsInFrame (SpecFrame)                         *)
(***************************************************************************)
\* The picture has a band on top at most, and its other pixels are not black
\* for the detector version.
OthersNonBlack(f) ==
  /\ f.picture.bottom = 0
  /\ f.picture.left = 0
  /\ f.picture.right = 0
  /\ f.picture.other >= BlackThreshold(f.version)

\* C15: a frame of height H whose top k rows are pure black (3 <= k <= H/2)
\* and whose other pixels are non-black gives top >= k and hasBlackBars; a
\* frame without black pixels gives four bars of 0 and hasBlackBars = false.
C15_TopBandDetected ==
  (fbPc = "done" /\ OthersNonBlack(fbFrame)) =>
    LET k == fbFrame.picture.top
        d == fbResult[1].detection
    IN /\ (MinBarSize <= k /\ 2 * k <= fbFrame.picture.height) =>
            (d.top >= k /\ fbResult[1].bars.top >= k /\ d.hasBlackBars)
       /\ k = 0 =>
            /\ d.top = 0 /\ d.bottom = 0 /\ d.left = 0 /\ d.right = 0
            /\ ~d.hasBlackBars

\* C15 witness: the top 50 rows of a frame of height 1080 are black, and a
\* band of exactly the minimum bar size was measured on another run.
C15_Witness ==
  /\ fbPc = "done"
  /\ OthersNonBlack(fbFrame)
  /\ fbFrame.picture.height = 1080
  /\ fbFrame.picture.top = 50
  /\ fbResult[1].detection.top >= 50
  /\ fbResult[1].detection.hasBlackBars

(***************************************************************************)
(* Further claims about the calls of triggerAnalysis (SpecEditor)          *)
(***************************************************************************)
\* C16 (as claimed): every clip of every clip list committed by an analysis
\* run has startTime < endTime, whatever the duration of the video, zero
\* included.
C16_ClipsHavePositiveLength ==
  \A r \in DOMAIN runs :
    runs[r].committed # Null =>
      \A i \in 1..Len(runs[r].committed[1].clips) :
        runs[r].committed[1].clips[i].startTime
          < runs[r].committed[1].clips[i].endTime

\* C17: once the abort signal of a run is set, the run starts no seek and no
\* detector call for a later sample; at most the sample in flight completes,
\* after which the loop returns null; a signal set during the last sample is
\* observed before clips are generated, so the run commits nothing.
C17_AbortStopsSampling ==
  [][\A r \in DOMAIN runs :
       runs[r].aborted =>
         /\ runs'[r].aborted
         /\ runs'[r].i \in {runs[r].i, runs[r].i + 1}
         /\ runs'[r].pc = "seeked" =>
              (runs[r].pc = "seeked" /\ runs'[r].i = runs[r].i)
         /\ runs'[r].pc = "detect" =>
              (runs[r].pc \in {"seeked", "detect"} /\ runs'[r].i = runs[r].i)
         /\ Len(runs'[r].samples) > Len(runs[r].samples) =>
              (runs[r].pc = "detect" /\ runs'[r].pc = "done")
         /\ runs'[r].committed = Null
         /\ runs'[r].i > runs[r].i => video' = video
    ]_vars

\* C17 witness: the signal of a run over two samples was set while its first
\* sample was in flight; the run completed that sample only and ended without
\* a project.
C17_Witness ==
  \E r \in DOMAIN runs :
    /\ videoFile[1].duration = SamplingInterval
    /\ runs[r].aborted
    /\ runs[r].pc = "done"
    /\ Len(runs[r].samples) = 1
    /\ runs[r].committed = Null

\* min(i * 0.5, D) in milliseconds, written out.
ExpectedTime(i, duration) ==
  IF i * SamplingInterval <= duration THEN i * SamplingInterval ELSE duration

\* Run r issues a seek in this step.
SeekIssued(r) ==
  /\ runs'[r].pc = "seeked"
  /\ \/ r \notin DOMAIN runs
     \/ runs[r].pc # "seeked"
     \/ runs[r].i # runs'[r].i

\* C18: within one run the samples are taken at min(i * 0.5, D) for
\* i = 0..ceil(D / 0.5), one at a time in strictly increasing order: the first
\* at 0, the last at D, none beyond D, none twice, and the seek of a sample is
\* issued only when the detector results of all earlier samples are in.
C18_SamplesInOrder ==
  [][\A r \in DOMAIN runs' :
       LET run == runs'[r]
           D == videoFile[1].duration
           n == Len(run.samples)
       IN /\ \A k \in 1..n :
               /\ run.samples[k].i = k - 1
               /\ run.samples[k].time = ExpectedTime(k - 1, D)
               /\ run.samples[k].time <= D
          /\ \A k \in 1..(n - 1) : run.samples[k].time < run.samples[k + 1].time
          /\ n >= 1 => run.samples[1].time = 0
          /\ (run.pc = "done" /\ ~run.aborted /\ run.ratio # "16:9") =>
               (n >= 1 /\ run.samples[n].time = D)
          /\ SeekIssued(r) =>
               /\ run.i = n
               /\ video'.currentTime = ExpectedTime(run.i, D)
               /\ video'.currentTime <= D
          /\ run.pc = "detect" => run.i = n
    ]_vars

\* C18 witness: a run over 0.7 s took its three samples at 0, 0.5 and 0.7 s.
C18_Witness ==
  \E r \in DOMAIN runs :
    /\ videoFile[1].duration = OddDuration
    /\ runs[r].pc = "done"
    /\ Len(runs[r].samples) = 3
    /\ runs[r].samples[2].time = SamplingInterval
    /\ runs[r].samples[3].time = OddDuration

\* The runs with a seek or a detector call outstanding on the video element.
UsingVideo == {r \in DOMAIN runs : runs[r].pc \in {"seeked", "detect"}}

\* C19 (as claimed): at no time do two runs both have a seek or a detector
\* call outstanding on the shared video element.
C19_VideoUsedByOneRun == Cardinality(UsingVideo) <= 1

\* The runs in progress whose abort signal is not set.
InProgressUnaborted ==
  {r \in DOMAIN runs : runs[r].pc # "done" /\ ~runs[r].aborted}

\* C20 (as claimed): whatever the sequence of triggerAnalysis calls, at most
\* one analysis run that has not been aborted is in progress.
C20_OneUnabortedRun == Cardinality(InProgressUnaborted) <= 1

\* The runs in progress that own an abort controller (hard-cut runs) and whose
\* signal is not set.
HardCutUnaborted ==
  {r \in InProgressUnaborted : runs[r].ratio # "16:9"}

\* C21 (as claimed): while a run is in progress and not aborted, isAnalyzing
\* is true, currentAnalyzingRatio is its ratio and (for a run that created a
\* controller) the stored abort controller is its controller; the end of a
\* canceled or superseded run resets none of these for its successor.
C21_RunOwnsAnalysisState ==
  /\ \A r \in InProgressUnaborted :
       /\ isAnalyzing
       /\ currentAnalyzingRatio = Some(runs[r].ratio)
  /\ \A r \in HardCutUnaborted : analysisAbortController = Some(r)

\* Every timer has fired and every run has ended.
AllFinished ==
  /\ timers = <<>>
  /\ \A r \in DOMAIN runs : runs[r].pc = "done"

\* C22 (as claimed): once every run has finished, the current edit project
\* and the generated clips are those of the most recently triggered ratio; a
\* run for an earlier ratio never overwrites them afterwards.
C22_LastTriggeredWins ==
  (AllFinished /\ lastTriggered # Null) =>
    /\ currentEditProject # Null
    /\ currentEditProject[1].targetAspectRatio = lastTriggered[1]
    /\ generatedClips = currentEditProject[1].clips

(***************************************************************************)
(* Further claims about detectBlackBarsInFrame (SpecFrame)                 *)
(***************************************************************************)
\* The measured frame has black pixels only in bands on top and bottom, with
\* non-black picture rows in between.
HorizontalBarsOnly(f) ==
  /\ f.picture.left = 0
  /\ f.picture.right = 0
  /\ f.picture.top + f.picture.bottom < f.picture.height
  /\ f.picture.other >= BlackThreshold(f.version)

\* The measured frame has black pixels only in bands on the left and right.
VerticalBarsOnly(f) ==
  /\ f.picture.top = 0
  /\ f.picture.bottom = 0
  /\ f.picture.left + f.picture.right < f.picture.width
  /\ f.picture.other >= BlackThreshold(f.version)

\* C23 (as claimed): bars are estimated independently per edge; a frame with
\* horizontal bars only gives left = right = 0 whatever their heights, and a
\* frame with vertical bars only gives top = bottom = 0.
C23_EdgesIndependent ==
  fbPc = "done" =>
    /\ HorizontalBarsOnly(fbFrame) =>
         (fbResult[1].bars.left = 0 /\ fbResult[1].bars.right = 0)
    /\ VerticalBarsOnly(fbFrame) =>
         (fbResult[1].bars.top = 0 /\ fbResult[1].bars.bottom = 0)

\* The ratio threshold of a detector version: 90% (blackBarDetector.ts, "at
\* least 90% of pixels are black") or blackRatioThreshold = 0.85 (part_002).
RatioThreshold(version) ==
  IF version = "blackBarDetector" THEN Fraction(9, 10) ELSE Fraction(85, 100)

\* Of the examined pixels of a line of length n those below position band are
\* black: their share meets or exceeds the ratio threshold.
MeetsRatio(version, n, band) ==
  LET examined == Examined(version, n)
      blackPixels == Cardinality({p \in examined : p < band})
  IN blackPixels * RatioThreshold(version).den
       >= RatioThreshold(version).num * Cardinality(examined)

\* C24 (as claimed): a row or column is classified black exactly when the
\* number of examined pixels below the brightness threshold divided by the
\* number of examined pixels meets or exceeds the ratio threshold; a row at
\* exactly the threshold counts as black.  Observed on frames whose rows are
\* all alike (a band on the left only: the top loop counts rows iff they are
\* black) and on frames whose columns are all alike (a band on top only).
C24_BlackAtRatioThreshold ==
  fbPc = "done" =>
    LET pic == fbFrame.picture IN
    /\ (VerticalBarsOnly(fbFrame) /\ pic.right = 0) =>
         ((fbResult[1].counted.top > 0)
            <=> MeetsRatio(fbFrame.version, pic.width, pic.left))
    /\ (HorizontalBarsOnly(fbFrame) /\ pic.bottom = 0) =>
         ((fbResult[1].counted.left > 0)
            <=> MeetsRatio(fbFrame.version, pic.height, pic.top))

\* max(5, floor(1% of the larger analysis dimension)), as claimed.
ClaimedMargin(pic) == Max2(5, Max2(pic.width, pic.height) \div 100)

\* C25 (as claimed): every non-zero bar returned for a frame is the number of
\* counted black rows or columns plus the safety margin, hence at least
\* 3 + margin; a bar counted below 3 px is returned as 0 with no margin.
C25_SafetyMarginAdded ==
  fbPc = "done" =>
    \A e \in Edges :
      LET counted == fbResult[1].counted[e]
          bar == fbResult[1].bars[e]
          margin == ClaimedMargin(fbFrame.picture)
      IN /\ counted >= MinBarSize => bar = counted + margin
         /\ counted < MinBarSize => bar = 0
         /\ bar # 0 => bar >= MinBarSize + margin

\* C26 (as claimed): for every BlackBarsDetection returned, the safe area has
\* width > 0 and height > 0 and lies inside the analysis rectangle
\* (left + right < width, top + bottom < height), whatever the frames show,
\* all-black and almost all-black frames included.
C26_SafeAreaInside ==
  fbPc = "done" =>
    LET d == fbResult[1].detection
        pic == fbFrame.picture
    IN /\ d.safeArea.width > 0
       /\ d.safeArea.height > 0
       /\ d.left + d.right < pic.width
       /\ d.top + d.bottom < pic.height

(***************************************************************************)
(* Further claims about the merge pass (SpecMerge)                         *)
(***************************************************************************)
\* C27 (as claimed): after optimizeProject returned, the clip list of the
\* input project still holds every original clip with its original startTime
\* and endTime: the clips received are not modified.
C27_InputNotModified ==
  mergePc = "done" =>
    /\ Len(mergeInAfter) = Len(mergeIn)
    /\ \A i \in 1..Len(mergeIn) :
         /\ mergeInAfter[i].id = mergeIn[i].id
         /\ mergeInAfter[i].startTime = mergeIn[i].startTime
         /\ mergeInAfter[i].endTime = mergeIn[i].endTime

\* C28: the merge pass is idempotent: applied a second time with the same
\* threshold to its own output it returns the same clip list, because after
\* one pass every pair of adjacent retained clips is at distance >= threshold.
C28_MergeIdempotent ==
  /\ mergePc \in {"done", "again"} =>
       \A i \in 1..(Len(mergeOut) - 1) :
         CropDist2(mergeOut[i], mergeOut[i + 1])
           >= mergeThreshold * mergeThreshold
  /\ mergePc = "again" => mergeAgain = mergeOut

\* C28 witness: the first pass merged a clip of three into its predecessor
\* and retained two clips; the second pass returned these two unchanged.
C28_Witness ==
  /\ mergePc = "again"
  /\ Len(mergeIn) = 3
  /\ Len(mergeOut) = 2
  /\ mergeOut # mergeIn
  /\ mergeAgain = mergeOut

\* C29: for a non-empty, time-sorted, non-overlapping input the output of the
\* merge pass is non-empty, time-sorted and non-overlapping, has the same
\* first startTime and the same last endTime, has no more clips than the
\* input, and every retained clip keeps its own id, startTime and crop
\* position.
C29_TimeStructureKept ==
  (mergePc = "done" /\ Len(mergeIn) > 0 /\ SortedNoOverlap(mergeIn)) =>
    /\ Len(mergeOut) > 0
    /\ SortedNoOverlap(mergeOut)
    /\ mergeOut[1].startTime = mergeIn[1].startTime
    /\ Last(mergeOut).endTime = Last(mergeIn).endTime
    /\ Len(mergeOut) <= Len(mergeIn)
    /\ \A j \in 1..Len(mergeOut) :
         \E i \in 1..Len(mergeIn) :
           /\ mergeIn[i].id = mergeOut[j].id
           /\ mergeIn[i].startTime = mergeOut[j].startTime
           /\ mergeIn[i].cropPosition = mergeOut[j].cropPosition

\* C29 witness: three clips with a pause before the first and before the
\* last one; the last was merged into the second across the pause.
C29_Witness ==
  /\ mergePc = "done"
  /\ Len(mergeIn) = 3
  /\ mergeIn[1].startTime > 0
  /\ mergeIn[3].startTime > mergeIn[2].endTime
  /\ Len(mergeOut) = 2
  /\ mergeOut[2].id = 2
  /\ mergeOut[2].endTime = mergeIn[3].endTime

(***************************************************************************)
(* Claims about the mouth-openness history (SpecSpeaking)                  *)
(***************************************************************************)
\* C30 (as claimed): the history of a face grows by one entry per sample in
\* which the face is detected and is capped at the last 10 entries: a face
\* seen at the same index in k successive samples has min(k, 10) entries at
\* the k-th sample, and from its second sample on its speaking score is the
\* variance * 2 + amplitude * 3 + mean * 0.5 score, not the raw openness.
\* Checked on the first run of the sampling loop (shCalls = shIndex), where
\* shSeen counts every sample the history could have recorded.
C30_HistoryGrowsPerSample ==
  (shCalls > 0 /\ shCalls = shIndex) =>
    \A k \in 1..Len(shFaces) :
      LET f == shFaces[k].faceIndex
          history == mouthMovementHistory[FaceId(shTime, f)]
      IN /\ Len(history) = Min2(shSeen[f], HistoryLimit)
         /\ shSeen[f] >= 2 =>
              /\ ~shFaces[k].early
              /\ shFaces[k].speakingScore
                   = VarianceScore([j \in 1..Len(history) |-> history[j].openness])

\* The entries of the map recorded more than HistoryMaxAge before now.
StaleKeys(histories, now) ==
  {key \in DOMAIN histories :
     histories[key] # <<>> /\ now - key[1] > HistoryMaxAge}

LiveKeys(histories) == {key \in DOMAIN histories : histories[key] # <<>>}

RECURSIVE Gcd(_, _)
Gcd(a, b) == IF b = 0 THEN a ELSE Gcd(b, a % b)

\* A fraction in lowest terms, so that equal scores are equal records.
Reduced(q) ==
  LET g == Gcd(q.num, q.den) IN
  IF g = 0 THEN q ELSE Fraction(q.num \div g, q.den \div g)

\* The flags and scores of two face lists are the same; getSpeakingPerson is
\* a function of them, so the same speaker is selected.
SameSpeakingInfo(a, b) ==
  /\ Len(a) = Len(b)
  /\ \A k \in 1..Len(a) :
       /\ a[k].faceIndex = b[k].faceIndex
       /\ a[k].isSpeaking = b[k].isSpeaking
       /\ Reduced(a[k].speakingScore) = Reduced(b[k].speakingScore)

\* C32: analysis is repeatable: a later run of the sampling loop over the same
\* video gets, at every sample, the flags and scores (and so the selected
\* speaker) the first run got there; the history left by an earlier run does
\* not influence it.
C32_RunsRepeat ==
  (/\ shRun > 1
   /\ shIndex > 0
   /\ shFailure = "none"
   /\ shFirstRun[shIndex - 1] # Null) =>
    SameSpeakingInfo(shFaces, shFirstRun[shIndex - 1][1])

\* C33: detectFacesWithSpeakingDetection never rejects: a video with zero
\* dimensions or that is not ready, a failed landmarker initialization, a
\* missing canvas context, an image load error and an exception inside
\* detection each end the call with an empty face list.
C33_NeverRejects ==
  /\ shSettled # "rejected"
  /\ shFailure \in Failures => (shSettled = "resolved" /\ shFaces = <<>>)

\* The landmarker initialization failed in a call later than the first.
C33_Witness ==
  /\ shFailure = "initFailed"
  /\ shSettled = "resolved"
  /\ shFaces = <<>>
  /\ shCalls > 1

(***************************************************************************)
(* Claims about the detector initialization (SpecDetectors)                *)
(***************************************************************************)
InitializingCallers == {p \in Callers : Initializing(callers[p])}

\* C34: initialization is mutually exclusive and once-only under every
\* interleaving of concurrent callers: at most one routine is between setting
\* and clearing isInitializing, and the flag is set exactly then (so callers
\* arriving meanwhile find it set and wait); each singleton is created by at
\* most one successful initialization and is the instance every caller got
\* that returned, whether it initialized, waited or came later.
C34_InitOnceAndExclusive ==
  /\ Cardinality(InitializingCallers) <= 1
  /\ isInitializing <=> InitializingCallers # {}
  /\ \A k \in DetectorKinds :
       /\ creations[k] <= 1
       /\ creations[k] = 1 <=> detectors[k] # Null
  /\ \A p \in Callers :
       callers[p].pc = "returned" =>
         callers[p].result = detectors[callers[p].kind]

\* A caller that waited while another caller initialized the singleton it
\* asked for has returned that caller's instance, after a failed CDN.
C34_Witness ==
  \E p, q \in Callers :
    /\ p # q
    /\ callers[p].kind = callers[q].kind
    /\ callers[p].pc = "returned"
    /\ callers[q].pc = "returned"
    /\ callers[p].result[1].by = q
    /\ callers[q].result[1].cdn > 1
    /\ \E r \in Callers : callers[r].pc = "threw"

(***************************************************************************)
(* Claims about the server-side export (SpecExport)                        *)
(***************************************************************************)
Exited == exPc \in {"returned", "threw"}

\* C35 (as claimed): once the upload has succeeded, the uploaded source video
\* is deleted from blob storage on every exit path before serverSideExport
\* returns or throws.
C35_SourceDeletedOnExit ==
  (Exited /\ exUploaded) => ~exStored

\* C35 (amended): once the upload has succeeded, deleteVideo is called for the
\* uploaded video and has settled on every exit path before serverSideExport
\* returns or throws; the video is gone from blob storage unless del
\* rejected, which deleteVideo catches and logs.
C35_DeleteAttemptedOnExit ==
  (Exited /\ exUploaded) =>
    /\ exDeletes >= 1
    /\ exFailedDeletes = 0 => ~exStored

\* The export was aborted while waitForJob was polling, and the video was
\* deleted before the AbortError was thrown.
C35_Witness ==
  /\ exPc = "threw"
  /\ exUploaded
  /\ exAborted
  /\ exWait = "rejected"
  /\ exPolls > 1
  /\ exDeletes = 1
  /\ ~exStored

\* C36: once the abort signal is set, waitForJob never resolves with an
\* output URL, whatever the status response in flight or a later one says:
\* it issues no status request after the one in flight and does not call
\* resolve.
C36_AbortedNeverResolves ==
  /\ [](exWait = "resolved" => ~exResolvedAborted)
  /\ [][exAborted => exPolls' = exPolls]_vars

(***************************************************************************)
(* Claims about the timeline (SpecTimeline)                                *)
(***************************************************************************)
\* C37: undo restores the previous snapshot: after undo has moved
\* historyIndex from k to k - 1 the displayed clip list equals history[k - 1]
\* (the same clips with the same times), also when the undone edit was a
\* deletion; historyIndex stays within [0, history.length - 1]; and a redo
\* brings the list to the snapshot it moves to.
C37_UndoRestoresSnapshot ==
  /\ tlHistory # <<>> =>
       (0 <= historyIndex /\ historyIndex <= Len(tlHistory) - 1)
  /\ tlLast.op = "undo" =>
       /\ tlClips = tlLast.target
       /\ historyIndex = tlLast.from - 1
  /\ tlLast.op = "redo" =>
       /\ tlClips = tlLast.target
       /\ historyIndex = tlLast.from + 1

\* C38: after every drag update (move, resize-start or resize-end) the
\* dragged clip satisfies 0 <= startTime, endTime <= duration and
\* endTime - startTime >= 1 s, for every duration and drag distance.
C38_DraggedClipInBounds ==
  tlLast.op = "drag" =>
    LET clip == ClipWithId(tlClips, tlLast.clipId) IN
    /\ 0 <= clip.startTime
    /\ clip.endTime <= tlDuration
    /\ clip.endTime - clip.startTime >= MinDuration

====
